---------------------------- MODULE Spec2Model ----------------------------
(***************************************************************************)
(* Verification model of the WordScape annotation pipeline.                *)
(*                                                                         *)
(* Part A  AnnotatorProcess worker + ConversionManager (renderer)          *)
(* Part B  LayoutLM formatter workers + data collector                     *)
(* Part C  ColorizationHandler / TableColorizationHandler color cycling    *)
(* Part D  Entity identity through detection, linking and trimming         *)
(* Part E  Content-aware heuristics of a paragraph (form, quote, list)     *)
(* Part F  ParagraphHeuristic.__build_map, the style heuristic map         *)
(* Part G  TableColorizationHandler, the properties applied to a cell      *)
(* Part H  postprocess_tables: rows, columns and header rows of a page     *)
(* Part I  annotate_run: main, annotators, monitor and logging process     *)
(* Part J  Batch provider and workers of snapshot parsing and downloading  *)
(***************************************************************************)
EXTENDS Integers, Sequences, FiniteSets, TLC

(***************************************************************************)
(* Bounds                                                                  *)
(***************************************************************************)
NumTars == 2
DocsPerTar == 2
NumPages == 2
MaxFaults == 2
NumFormatters == 2
MaxItems == 2
MaxCrashes == 1
MaxHeaderPars == 1
MaxPars == 30
MaxDepth == 1
LongRun == 104
PageSide == 2
MaxEntities == 2
MaxWords == 1
MaxRuns == 3
MaxParLen == 4
MaxFieldMin == 4
MaxStylePars == 3
MaxStructEntities == 3
MaxBatches == 4
QueueSlotsPerWorker == 1

(***************************************************************************)
(* Part A: state of one AnnotatorProcess                                   *)
(***************************************************************************)
VARIABLES
    max_docs,        \* AnnotatorProcess.max_docs
    tarIdx,          \* index into self.input_tars (run loop)
    memberIdx,       \* index into tar.getmembers() (_handle_tar loop)
    counts,          \* local counter of _handle_tar
    pc,              \* position of the worker inside _handle_tar
    stage,           \* position inside annotate0
    sofficeAlive,    \* whether the process behind self._soffice_proc runs
    failedFile,      \* records written by _record_fail
    outputQueue,     \* messages put on self.output_queue
    out,             \* per document: records written by _save_instance
    faults,          \* number of environment faults injected so far
    restartCalls,    \* calls of shutdown_soffice + _start_unoserver
    healthDead,      \* health checks that found the handle dead
    convFailedDocs,  \* documents whose conversion timed out / exited non-zero
    healthDeadDocs,  \* documents whose conversion found the handle dead
    requested,       \* documents for which a conversion request was issued
    reqAfterConvFail,   \* documents converted again after a failed conversion
    reqAfterHealthDead, \* documents converted after a dead health check
    stale,           \* a conversion failed and no renderer start succeeded since
    sentStale,       \* a request was issued while stale
    sentToDead,      \* a request was issued to a dead handle
    raised,          \* per document: kind of the exception raised, or "none"
    attempted        \* documents that entered the load step

annotVars == <<max_docs, tarIdx, memberIdx, counts, pc, stage, sofficeAlive,
               failedFile, outputQueue, out, faults, restartCalls, healthDead,
               convFailedDocs, healthDeadDocs, requested,
               reqAfterConvFail, reqAfterHealthDead, stale, sentStale,
               sentToDead, raised, attempted>>

(***************************************************************************)
(* Part B: state of the LayoutLM data preparation (main, formatter         *)
(* processes, finisher process, collector process, data_q)                 *)
(***************************************************************************)
VARIABLES
    mainPc,          \* position of main() of the data preparation
    formatterPc,     \* per formatter process: "new", "run", "exited"
    produced,        \* per formatter process: datapoints put on out_q
    crashed,         \* formatter processes that ended with an exception
    data_q,          \* the mp.Queue between formatters and collector
    consumed,        \* what the collector has taken from data_q, in order
    seen_stop_sigs,  \* local counter of the collector's run()
    ingested_count,  \* WSLayoutLMDataCollectorProcess.ingested_count
    collectorPc      \* "run" while the collector loops, "done" after break

collVars == <<mainPc, formatterPc, produced, crashed, data_q, consumed,
              seen_stop_sigs, ingested_count, collectorPc>>

(***************************************************************************)
(* Part C: state of the colorization of one document                       *)
(***************************************************************************)
VARIABLES
    colorPhase,      \* position in colorize_word_doc
    application,     \* ColorizationHandler.color_decision_to_application
    used,            \* ColorizationHandler._used_colors
    frames,          \* stack of running __colorize_rows calls
    lastEmit,        \* the color painted last, and what it was painted on
    prevEmit,        \* per cycling category: its previous painted color
    cycled,          \* cycling paragraphs painted in the current pass
    tablesDone,      \* tables colorized in the current pass
    usedOnlyGrows    \* no color was ever removed from a used set

colorVars == <<colorPhase, application, used, frames, lastEmit, prevEmit,
               cycled, tablesDone, usedOnlyGrows>>

(***************************************************************************)
(* Part D: state of the entity post-processing of one page                 *)
(***************************************************************************)
VARIABLES
    entStage,        \* position in AnnotatorProcess.annotate0
    page_dims,       \* pages_dims_img[page_id]: <<width, height>> in pixels
    threshold,       \* config.word_2_entity_overlap_threshold, <<num, den>>
    pages_entities,  \* pages_entities[page_id]: category -> list of Entity
    pages_words      \* pages_words[page_id]: list of Word

entVars == <<entStage, page_dims, threshold, pages_entities, pages_words>>

(***************************************************************************)
(* Part E: state of the heuristic recommendation of one paragraph          *)
(***************************************************************************)
VARIABLES
    heurPc,          \* position: config, runs, done
    heurConfig,      \* AnnotationConfig and builtin_heading_tracker # []
    paragraph,       \* the paragraph: numbered (w:numPr) and its runs
    heuristic        \* what get_heuristic_with_runs returned

heurVars == <<heurPc, heurConfig, paragraph, heuristic>>

(***************************************************************************)
(* Part F: ParagraphHeuristic.__build_map, the style heuristic map         *)
(***************************************************************************)
VARIABLES
    stylePc,                  \* "evaluating" the paragraphs, then "built"
    parsEvaluated,            \* paragraphs of the body evaluated so far
    font_size_count,          \* signature -> characters, in insertion order
    font_size_appearances,    \* signature -> paragraphs it appears in
    builtin_heading_tracker,  \* (signature, level) of the builtin headings
    heuristic_map             \* signature -> heuristic level

styleVars == <<stylePc, parsEvaluated, font_size_count, font_size_appearances,
               builtin_heading_tracker, heuristic_map>>

(***************************************************************************)
(* Part G: TableColorizationHandler, the properties applied to a cell      *)
(***************************************************************************)
VARIABLES
    tblPc,           \* "new", "rows", then "colorized" or "failed"
    tblParsed,       \* what __parse_table_properties / __parse_tbl_ref_style
                     \* stored: _tbl_borders, _tbl_shading, _tbl_look,
                     \* _ref_tbl_props, _ref_tc_props, _ref_cnd_styles
    tcIn,            \* the cell last colorized: tcPr, cnfStyle, row, location
    tcProps          \* what __get_tc_props_applied returned for it

tblVars == <<tblPc, tblParsed, tcIn, tcProps>>

(* Part H: postprocess_tables on the entities of one page *)
VARIABLES
    structPc,             \* position in postprocess_tables
    entitiesOfPage,       \* pages_entities[page_id], by entity category
    header_row_entities   \* the local variable of postprocess_tables

structVars == <<structPc, entitiesOfPage, header_row_entities>>

(* Part I: one annotation run (annotate_run.main and its processes) *)
VARIABLES
    runMain,                \* position of the main process
    argsMaxDocs,            \* args.max_docs
    source_tars_chunks,     \* number of archives of every worker
    max_docs_per_process,
    queue_buffer_size,
    joined,                 \* number of annotators main has joined
    annotatorPc,            \* per annotator: "run" or "done"
    annotatorTar,           \* per annotator: index of the archive at hand
    annotatorCounts,        \* per annotator: counts of _handle_tar
    handled,                \* per annotator: documents handled so far
    results_queue,
    logging_queue,
    monitorPc,
    num_docs,               \* AnnotationMonitor.run: results consumed
    loggerPc

runVars == <<runMain, argsMaxDocs, source_tars_chunks, max_docs_per_process,
             queue_buffer_size, joined, annotatorPc, annotatorTar,
             annotatorCounts, handled, results_queue, logging_queue,
             monitorPc, num_docs, loggerPc>>

(* Part J: a pipeline fed by a batch provider (cc_parse_snapshot.main with
   URIBatchProvider and CCURLProcess, download_run.main with
   URLBatchProvider and DownloadProcess) *)
VARIABLES
    pipeline,        \* which of the two programs runs
    pipeMain,        \* position of the main process
    pipeWorkerPc,    \* per started worker: "run" or "done"
    pipeJoined,      \* number of workers main has joined
    providerPc,
    batchesLeft,     \* batches the provider has still to put
    stopsLeft,       \* rounds left of "for _ in range(self.num_workers)"
    inputs_queue

pipeVars == <<pipeline, pipeMain, pipeWorkerPc, pipeJoined, providerPc,
              batchesLeft, stopsLeft, inputs_queue>>

vars == <<annotVars, collVars, colorVars, entVars, heurVars, styleVars,
         tblVars, structVars, runVars, pipeVars>>

STATUS_SUCCESS == "SUCCESS"
STATUS_FAIL == "FAIL"

Members == 1..(NumTars * DocsPerTar)
Pages == 1..NumPages
MaxDocsChoices == {0, 1}

KindCycle == <<"docx", "doc", "other">>
MemberKind(m) == KindCycle[((m - 1) % 3) + 1]
MemberOf(t, i) == (t - 1) * DocsPerTar + i
TarOf(m) == ((m - 1) \div DocsPerTar) + 1
IdxOf(m) == ((m - 1) % DocsPerTar) + 1
IsDocument(m) == MemberKind(m) \in {"docx", "doc"}
Documents == {m \in Members : IsDocument(m)}

\* the steps of annotate0 in program order
Stages(kind) ==
    IF kind = "doc"
    THEN <<"doc_to_docx", "pre", "docx_to_pdf", "prep", "docx_to_pdf", "post">>
    ELSE <<"pre", "docx_to_pdf", "prep", "docx_to_pdf", "post">>

IsConversion(s) == s \in {"doc_to_docx", "docx_to_pdf"}

\* exception raised by each non-conversion step
StepException(s) ==
    CASE s = "load" -> "CompressedFileSizeExceededException"
      [] s = "pre" -> "PageCountExceededException"
      [] s = "prep" -> "TextTooShortException"
      [] s = "post" -> "InconsistentPageCountError"
      [] s = "save" -> "Exception"
      [] s = "cleanup" -> "OSError"

\* str(e) of the exception
Msg(exc) ==
    CASE exc = "CompressedFileSizeExceededException" -> "is too large"
      [] exc = "PageCountExceededException" -> "exceeds maximum page count"
      [] exc = "TextTooShortException" -> "char count too short"
      [] exc = "InconsistentPageCountError" -> "Expected pages"
      [] exc = "ConversionFailedException" -> "conversion failed"
      [] exc = "SofficeStartFailed" -> "Failed to start soffice"
      [] exc = "Exception" -> "Missing file"
      [] exc = "OSError" -> "No space left on device"

\* what _save_instance has written for a document: pages added to the shard
\* archive, page-level text, document text, page-level and document metadata
NoOutput == [tar |-> 0, ptext |-> FALSE, dtext |-> FALSE, pmeta |-> FALSE,
             dmeta |-> FALSE]
FullOutput == [tar |-> NumPages, ptext |-> TRUE, dtext |-> TRUE,
               pmeta |-> TRUE, dmeta |-> TRUE]

cur == MemberOf(tarIdx, memberIdx)

AnnotStart ==
    /\ max_docs \in MaxDocsChoices
    /\ tarIdx = 1
    /\ memberIdx = 1
    /\ counts = 0
    /\ pc = "iter"
    /\ stage = 0
    /\ sofficeAlive = TRUE
    /\ failedFile = {}
    /\ outputQueue = <<>>
    /\ out = [m \in Members |-> NoOutput]
    /\ faults = 0
    /\ restartCalls = 0
    /\ healthDead = 0
    /\ convFailedDocs = {}
    /\ healthDeadDocs = {}
    /\ requested = {}
    /\ reqAfterConvFail = {}
    /\ reqAfterHealthDead = {}
    /\ stale = FALSE
    /\ sentStale = FALSE
    /\ sentToDead = FALSE
    /\ raised = [m \in Members |-> "none"]
    /\ attempted = {}


(***************************************************************************)
(* Part A: actions                                                         *)
(***************************************************************************)
AnnotHistUnchanged ==
    UNCHANGED <<restartCalls, healthDead, convFailedDocs, healthDeadDocs, requested, reqAfterConvFail,
                reqAfterHealthDead, stale, sentStale, sentToDead>>

\* _maybe_restart_unoserver: "if not force_restart and self._is_running():
\* return", otherwise the renderer is shut down and started again
NeedsRestart_forceOnly(force_restart, running) == force_restart
NeedsRestart_healthOnly(force_restart, running) == ~running
NeedsRestart(force_restart, running) == ~(~force_restart /\ running)

\* the except-branches of _handle_tar: _record_fail, put a FAIL message on
\* the output queue, and continue with the next member of the tar
HandleFailure_reraise(d, exc) ==
    /\ failedFile' = failedFile \cup
           {[doc |-> d, exception |-> exc, msg |-> Msg(exc),
             sources_shard_id |-> TarOf(d)]}
    /\ outputQueue' = Append(outputQueue,
           [doc |-> d, status |-> STATUS_FAIL, num_pages |-> 0])
    /\ pc' = "iter"
    /\ stage' = 0
    /\ tarIdx' = tarIdx + 1
    /\ memberIdx' = 1
    /\ counts' = 0
HandleFailure(d, exc) ==
    /\ failedFile' = failedFile \cup
           {[doc |-> d, exception |-> exc, msg |-> Msg(exc),
             sources_shard_id |-> TarOf(d)]}
    /\ outputQueue' = Append(outputQueue,
           [doc |-> d, status |-> STATUS_FAIL, num_pages |-> 0])
    /\ pc' = "iter"
    /\ stage' = 0
    /\ memberIdx' = memberIdx + 1
    /\ UNCHANGED <<tarIdx, counts>>

\* an exception of kind exc leaves the step that d is in
Raise(d, exc) ==
    /\ raised' = [raised EXCEPT ![d] = exc]
    /\ HandleFailure(d, exc)

\* run(): the tar is exhausted, go on with the next input tar
NextTar ==
    /\ pc = "iter"
    /\ tarIdx <= NumTars
    /\ memberIdx > DocsPerTar
    /\ tarIdx' = tarIdx + 1
    /\ memberIdx' = 1
    /\ counts' = 0
    /\ UNCHANGED <<max_docs, pc, stage, sofficeAlive, failedFile, outputQueue,
                   out, faults, raised, attempted>>
    /\ AnnotHistUnchanged

\* _handle_tar: "if counts > self.max_docs > 0: raise StopIteration"; the
\* exception is caught and logged in run(), which goes on with the next tar
MaxDocsReached ==
    /\ pc = "iter"
    /\ tarIdx <= NumTars
    /\ memberIdx <= DocsPerTar
    /\ max_docs > 0
    /\ counts + 1 > max_docs
    /\ tarIdx' = tarIdx + 1
    /\ memberIdx' = 1
    /\ counts' = 0
    /\ UNCHANGED <<max_docs, pc, stage, sofficeAlive, failedFile, outputQueue,
                   out, faults, raised, attempted>>
    /\ AnnotHistUnchanged

\* _handle_tar: members that are not .doc/.docx are skipped
SkipMember ==
    /\ pc = "iter"
    /\ tarIdx <= NumTars
    /\ memberIdx <= DocsPerTar
    /\ ~(counts + 1 > max_docs /\ max_docs > 0)
    /\ ~IsDocument(cur)
    /\ counts' = counts + 1
    /\ memberIdx' = memberIdx + 1
    /\ UNCHANGED <<max_docs, tarIdx, pc, stage, sofficeAlive, failedFile,
                   outputQueue, out, faults, raised, attempted>>
    /\ AnnotHistUnchanged

\* _handle_tar: the next document member is taken
TakeMember ==
    /\ pc = "iter"
    /\ tarIdx <= NumTars
    /\ memberIdx <= DocsPerTar
    /\ ~(counts + 1 > max_docs /\ max_docs > 0)
    /\ IsDocument(cur)
    /\ counts' = counts + 1
    /\ pc' = "load"
    /\ attempted' = attempted \cup {cur}
    /\ UNCHANGED <<max_docs, tarIdx, memberIdx, stage, sofficeAlive,
                   failedFile, outputQueue, out, faults, raised>>
    /\ AnnotHistUnchanged

\* _load_doc_bytes succeeds
LoadOk ==
    /\ pc = "load"
    /\ pc' = "annotate"
    /\ stage' = 1
    /\ UNCHANGED <<max_docs, tarIdx, memberIdx, counts, sofficeAlive,
                   failedFile, outputQueue, out, faults, raised, attempted>>
    /\ AnnotHistUnchanged

\* _load_doc_bytes raises
LoadFail ==
    /\ pc = "load"
    /\ faults < MaxFaults
    /\ faults' = faults + 1
    /\ Raise(cur, StepException("load"))
    /\ UNCHANGED <<max_docs, sofficeAlive, out, attempted>>
    /\ AnnotHistUnchanged

curStage == Stages(MemberKind(cur))[stage]
lastStage == stage = Len(Stages(MemberKind(cur)))

\* a non-conversion step of annotate0 succeeds
AnnotateOk ==
    /\ pc = "annotate"
    /\ ~IsConversion(curStage)
    /\ IF lastStage
       THEN pc' = "save" /\ stage' = 0
       ELSE pc' = pc /\ stage' = stage + 1
    /\ UNCHANGED <<max_docs, tarIdx, memberIdx, counts, sofficeAlive,
                   failedFile, outputQueue, out, faults, raised, attempted>>
    /\ AnnotHistUnchanged

\* a non-conversion step of annotate0 raises
AnnotateFail ==
    /\ pc = "annotate"
    /\ ~IsConversion(curStage)
    /\ faults < MaxFaults
    /\ faults' = faults + 1
    /\ Raise(cur, StepException(curStage))
    /\ UNCHANGED <<max_docs, sofficeAlive, out, attempted>>
    /\ AnnotHistUnchanged

\* docx_to_pdf / doc_to_docx: the health check finds the handle dead and the
\* restart fails: SofficeStartFailed leaves annotate0
ConvertStartFailed ==
    /\ pc = "annotate"
    /\ IsConversion(curStage)
    /\ NeedsRestart(FALSE, sofficeAlive)
    /\ faults < MaxFaults
    /\ faults' = faults + 1
    /\ restartCalls' = restartCalls + 1
    /\ healthDead' = IF sofficeAlive THEN healthDead ELSE healthDead + 1
    /\ healthDeadDocs' = IF sofficeAlive THEN healthDeadDocs
                         ELSE healthDeadDocs \cup {cur}
    /\ sofficeAlive' = FALSE
    /\ stale' = TRUE
    /\ Raise(cur, "SofficeStartFailed")
    /\ UNCHANGED <<max_docs, out, attempted, convFailedDocs, requested, reqAfterConvFail, reqAfterHealthDead,
                   sentStale, sentToDead>>

\* effect of the health check (and of the restart it may perform) that
\* precedes a conversion request, and of issuing the request
ConvertRequest ==
    LET r1 == NeedsRestart(FALSE, sofficeAlive)
        alive1 == IF r1 THEN TRUE ELSE sofficeAlive
        stale1 == IF r1 THEN FALSE ELSE stale
        hdd == IF sofficeAlive THEN healthDeadDocs
               ELSE healthDeadDocs \cup {cur}
    IN  /\ healthDead' = IF sofficeAlive THEN healthDead ELSE healthDead + 1
        /\ healthDeadDocs' = hdd
        /\ requested' = requested \cup {cur}
        /\ sentToDead' = (sentToDead \/ ~alive1)
        /\ sentStale' = (sentStale \/ stale1)
        /\ reqAfterConvFail' = IF cur \in convFailedDocs
                               THEN reqAfterConvFail \cup {cur}
                               ELSE reqAfterConvFail
        /\ reqAfterHealthDead' = IF cur \in hdd
                                 THEN reqAfterHealthDead \cup {cur}
                                 ELSE reqAfterHealthDead

restartsOfHealthCheck ==
    IF NeedsRestart(FALSE, sofficeAlive) THEN 1 ELSE 0
aliveAtRequest ==
    IF NeedsRestart(FALSE, sofficeAlive) THEN TRUE ELSE sofficeAlive

\* docx_to_pdf / doc_to_docx: health check, request, exit code 0
ConvertOk ==
    /\ pc = "annotate"
    /\ IsConversion(curStage)
    /\ aliveAtRequest
    /\ ConvertRequest
    /\ restartCalls' = restartCalls + restartsOfHealthCheck
    /\ sofficeAlive' = TRUE
    /\ stale' = FALSE
    /\ stage' = stage + 1
    /\ UNCHANGED <<max_docs, tarIdx, memberIdx, counts, pc, failedFile,
                   outputQueue, out, faults, raised, attempted,
                   convFailedDocs>>

\* docx_to_pdf / doc_to_docx: health check, request, then a timeout or a
\* non-zero exit code; the except-branch forces a restart, which may fail
ConvertFail ==
    /\ pc = "annotate"
    /\ IsConversion(curStage)
    /\ \E aliveAfter \in BOOLEAN, startOk \in BOOLEAN :
         LET r2 == NeedsRestart(TRUE, aliveAfter)
         IN  /\ aliveAfter => aliveAtRequest
             /\ ~r2 => startOk
             /\ faults < MaxFaults
             /\ faults' = faults + 1
             /\ ConvertRequest
             /\ convFailedDocs' = convFailedDocs \cup {cur}
             /\ restartCalls' = restartCalls + restartsOfHealthCheck
                                + (IF r2 THEN 1 ELSE 0)
             /\ sofficeAlive' = IF r2 THEN startOk ELSE aliveAfter
             /\ stale' = ~(r2 /\ startOk)
             /\ Raise(cur, IF r2 /\ ~startOk THEN "SofficeStartFailed"
                           ELSE "ConversionFailedException")
    /\ UNCHANGED <<max_docs, out, attempted>>

\* the record that _save_instance writes next
NextSave(o) ==
    IF o.tar < NumPages THEN "tar"
    ELSE IF ~o.ptext THEN "ptext"
    ELSE IF ~o.dtext THEN "dtext"
    ELSE IF ~o.pmeta THEN "pmeta"
    ELSE IF ~o.dmeta THEN "dmeta"
    ELSE "done"

Written(o, item) ==
    CASE item = "tar" -> [o EXCEPT !.tar = @ + 1]
      [] item = "ptext" -> [o EXCEPT !.ptext = TRUE]
      [] item = "dtext" -> [o EXCEPT !.dtext = TRUE]
      [] item = "pmeta" -> [o EXCEPT !.pmeta = TRUE]
      [] item = "dmeta" -> [o EXCEPT !.dmeta = TRUE]

\* _save_instance: one more record reaches the shard archive / the text
\* and metadata files
SaveWrite ==
    /\ pc = "save"
    /\ NextSave(out[cur]) # "done"
    /\ out' = [out EXCEPT ![cur] = Written(@, NextSave(@))]
    /\ pc' = IF NextSave(out'[cur]) = "done" THEN "cleanup" ELSE "save"
    /\ UNCHANGED <<max_docs, tarIdx, memberIdx, counts, stage, sofficeAlive,
                   failedFile, outputQueue, faults, raised, attempted>>
    /\ AnnotHistUnchanged

\* _save_instance raises while writing the next record
SaveFail ==
    /\ pc = "save"
    /\ NextSave(out[cur]) # "done"
    /\ faults < MaxFaults
    /\ faults' = faults + 1
    /\ Raise(cur, StepException("save"))
    /\ UNCHANGED <<max_docs, sofficeAlive, out, attempted>>
    /\ AnnotHistUnchanged

\* _cleanup_annotate succeeds and the SUCCESS message is put on the queue
CleanupOk ==
    /\ pc = "cleanup"
    /\ outputQueue' = Append(outputQueue,
           [doc |-> cur, status |-> STATUS_SUCCESS, num_pages |-> NumPages])
    /\ pc' = "iter"
    /\ memberIdx' = memberIdx + 1
    /\ UNCHANGED <<max_docs, tarIdx, counts, stage, sofficeAlive, failedFile,
                   out, faults, raised, attempted>>
    /\ AnnotHistUnchanged

\* _cleanup_annotate raises (flush / _reset_shards)
CleanupFail ==
    /\ pc = "cleanup"
    /\ faults < MaxFaults
    /\ faults' = faults + 1
    /\ Raise(cur, StepException("cleanup"))
    /\ UNCHANGED <<max_docs, sofficeAlive, out, attempted>>
    /\ AnnotHistUnchanged

\* run(): all tars handled, shutdown()
Shutdown ==
    /\ pc = "iter"
    /\ tarIdx > NumTars
    /\ pc' = "done"
    /\ sofficeAlive' = FALSE
    /\ UNCHANGED <<max_docs, tarIdx, memberIdx, counts, stage, failedFile,
                   outputQueue, out, faults, raised, attempted>>
    /\ AnnotHistUnchanged

\* environment: the soffice process dies on its own while idle, before
\* the health check of the next conversion
RendererDies ==
    /\ pc = "annotate"
    /\ IsConversion(curStage)
    /\ sofficeAlive
    /\ faults < MaxFaults
    /\ faults' = faults + 1
    /\ sofficeAlive' = FALSE
    /\ UNCHANGED <<max_docs, tarIdx, memberIdx, counts, pc, stage, failedFile,
                   outputQueue, out, raised, attempted>>
    /\ AnnotHistUnchanged

NextAnnot ==
    \/ NextTar /\ UNCHANGED <<collVars, colorVars, entVars, heurVars,
                        styleVars, tblVars, structVars, runVars, pipeVars>>
    \/ MaxDocsReached /\ UNCHANGED <<collVars, colorVars, entVars, heurVars,
                        styleVars, tblVars, structVars, runVars, pipeVars>>
    \/ SkipMember /\ UNCHANGED <<collVars, colorVars, entVars, heurVars,
                        styleVars, tblVars, structVars, runVars, pipeVars>>
    \/ TakeMember /\ UNCHANGED <<collVars, colorVars, entVars, heurVars,
                        styleVars, tblVars, structVars, runVars, pipeVars>>
    \/ LoadOk /\ UNCHANGED <<collVars, colorVars, entVars, heurVars,
                        styleVars, tblVars, structVars, runVars, pipeVars>>
    \/ LoadFail /\ UNCHANGED <<collVars, colorVars, entVars, heurVars,
                        styleVars, tblVars, structVars, runVars, pipeVars>>
    \/ AnnotateOk /\ UNCHANGED <<collVars, colorVars, entVars, heurVars,
                        styleVars, tblVars, structVars, runVars, pipeVars>>
    \/ AnnotateFail /\ UNCHANGED <<collVars, colorVars, entVars, heurVars,
                        styleVars, tblVars, structVars, runVars, pipeVars>>
    \/ ConvertStartFailed /\ UNCHANGED <<collVars, colorVars, entVars, heurVars,
                        styleVars, tblVars, structVars, runVars, pipeVars>>
    \/ ConvertOk /\ UNCHANGED <<collVars, colorVars, entVars, heurVars,
                        styleVars, tblVars, structVars, runVars, pipeVars>>
    \/ ConvertFail /\ UNCHANGED <<collVars, colorVars, entVars, heurVars,
                        styleVars, tblVars, structVars, runVars, pipeVars>>
    \/ SaveWrite /\ UNCHANGED <<collVars, colorVars, entVars, heurVars,
                        styleVars, tblVars, structVars, runVars, pipeVars>>
    \/ SaveFail /\ UNCHANGED <<collVars, colorVars, entVars, heurVars,
                        styleVars, tblVars, structVars, runVars, pipeVars>>
    \/ CleanupOk /\ UNCHANGED <<collVars, colorVars, entVars, heurVars,
                        styleVars, tblVars, structVars, runVars, pipeVars>>
    \/ CleanupFail /\ UNCHANGED <<collVars, colorVars, entVars, heurVars,
                        styleVars, tblVars, structVars, runVars, pipeVars>>
    \/ Shutdown /\ UNCHANGED <<collVars, colorVars, entVars, heurVars,
                        styleVars, tblVars, structVars, runVars, pipeVars>>
    \/ RendererDies /\ UNCHANGED <<collVars, colorVars, entVars, heurVars,
                        styleVars, tblVars, structVars, runVars, pipeVars>>



(***************************************************************************)
(* Part B: formatter processes and collector                               *)
(***************************************************************************)
Formatters == 1..NumFormatters
finisher_proc == NumFormatters + 1
Producers == 1..(NumFormatters + 1)
\* main(): proc_to_wait=(len(processes) + 1)
proc_to_wait == NumFormatters + 1

Datapoint(w) == [from |-> w, stop |-> FALSE]
\* the None that run() puts after create_dataset
StopSignal(w) == [from |-> w, stop |-> TRUE]

\* main() has started every formatter process and the collector
CollStart ==
    /\ mainPc = "join_formatters"
    /\ formatterPc = [w \in Producers |->
                          IF w \in Formatters THEN "run" ELSE "new"]
    /\ produced = [w \in Producers |-> 0]
    /\ crashed = {}
    /\ data_q = <<>>
    /\ consumed = <<>>
    /\ seen_stop_sigs = 0
    /\ ingested_count = 0
    /\ collectorPc = "run"

\* create_dataset: out_q.put(datapoint_formatted)
FormatterPut(w) ==
    /\ formatterPc[w] = "run"
    /\ produced[w] < MaxItems
    /\ produced' = [produced EXCEPT ![w] = @ + 1]
    /\ data_q' = Append(data_q, Datapoint(w))
    /\ UNCHANGED <<mainPc, formatterPc, crashed, consumed, seen_stop_sigs,
                   ingested_count, collectorPc>>

\* run(): create_dataset returns (tar list exhausted or max_img reached),
\* then self.out_q.put(None) and the process ends
FormatterFinish(w) ==
    /\ formatterPc[w] = "run"
    /\ formatterPc' = [formatterPc EXCEPT ![w] = "exited"]
    /\ data_q' = Append(data_q, StopSignal(w))
    /\ UNCHANGED <<mainPc, produced, crashed, consumed, seen_stop_sigs,
                   ingested_count, collectorPc>>

\* run(): create_dataset raises outside its per-file try (open() of the
\* doc_meta jsonl, json.loads of a line, tarfile.open of the archive); the
\* exception leaves run() before out_q.put(None)
FormatterCrash(w) ==
    /\ formatterPc[w] = "run"
    /\ Cardinality(crashed) < MaxCrashes
    /\ formatterPc' = [formatterPc EXCEPT ![w] = "exited"]
    /\ crashed' = crashed \cup {w}
    /\ UNCHANGED <<mainPc, produced, data_q, consumed, seen_stop_sigs,
                   ingested_count, collectorPc>>

\* main(): every formatter is joined, the finisher is started
StartFinisher ==
    /\ mainPc = "join_formatters"
    /\ \A w \in Formatters : formatterPc[w] = "exited"
    /\ mainPc' = "join_finisher"
    /\ formatterPc' = [formatterPc EXCEPT ![finisher_proc] = "run"]
    /\ UNCHANGED <<produced, crashed, data_q, consumed, seen_stop_sigs,
                   ingested_count, collectorPc>>

\* main(): finisher_proc.join() returns
JoinFinisher ==
    /\ mainPc = "join_finisher"
    /\ formatterPc[finisher_proc] = "exited"
    /\ mainPc' = "join_collector"
    /\ UNCHANGED <<formatterPc, produced, crashed, data_q, consumed,
                   seen_stop_sigs, ingested_count, collectorPc>>

\* main(): collector_proc.join() returns
JoinCollector ==
    /\ mainPc = "join_collector"
    /\ collectorPc = "done"
    /\ mainPc' = "end"
    /\ UNCHANGED <<formatterPc, produced, crashed, data_q, consumed,
                   seen_stop_sigs, ingested_count, collectorPc>>

\* the collector's loop condition after one more None
CollectorStops(seen) == seen >= proc_to_wait

\* collector run(): one iteration of the while-loop
CollectorGet ==
    /\ collectorPc = "run"
    /\ data_q # <<>>
    /\ data_q' = Tail(data_q)
    /\ consumed' = Append(consumed, Head(data_q))
    /\ IF Head(data_q).stop
       THEN /\ seen_stop_sigs' = seen_stop_sigs + 1
            /\ collectorPc' = IF CollectorStops(seen_stop_sigs + 1)
                              THEN "done" ELSE "run"
            /\ UNCHANGED ingested_count
       ELSE /\ ingested_count' = ingested_count + 1
            /\ UNCHANGED <<seen_stop_sigs, collectorPc>>
    /\ UNCHANGED <<mainPc, formatterPc, produced, crashed>>

NextColl ==
    \/ \E w \in Producers : FormatterPut(w) /\ UNCHANGED <<annotVars, colorVars, entVars, heurVars,
                        styleVars, tblVars, structVars, runVars, pipeVars>>
    \/ \E w \in Producers : FormatterFinish(w) /\ UNCHANGED <<annotVars, colorVars, entVars, heurVars,
                        styleVars, tblVars, structVars, runVars, pipeVars>>
    \/ \E w \in Producers : FormatterCrash(w) /\ UNCHANGED <<annotVars, colorVars, entVars, heurVars,
                        styleVars, tblVars, structVars, runVars, pipeVars>>
    \/ StartFinisher /\ UNCHANGED <<annotVars, colorVars, entVars, heurVars,
                        styleVars, tblVars, structVars, runVars, pipeVars>>
    \/ JoinFinisher /\ UNCHANGED <<annotVars, colorVars, entVars, heurVars,
                        styleVars, tblVars, structVars, runVars, pipeVars>>
    \/ JoinCollector /\ UNCHANGED <<annotVars, colorVars, entVars, heurVars,
                        styleVars, tblVars, structVars, runVars, pipeVars>>
    \/ CollectorGet /\ UNCHANGED <<annotVars, colorVars, entVars, heurVars,
                        styleVars, tblVars, structVars, runVars, pipeVars>>

(***************************************************************************)
(* Part C: ColorizationHandler and TableColorizationHandler                *)
(***************************************************************************)
COLOR_DOCUMENT_TITLE == <<7, 255, 255>>
COLOR_SECTION_HEADING_1 == <<14, 255, 255>>
COLOR_SECTION_HEADING_2 == <<14, 235, 255>>
COLOR_SECTION_HEADING_3 == <<14, 215, 255>>
COLOR_SECTION_HEADING_4 == <<14, 195, 255>>
COLOR_SECTION_HEADING_5 == <<14, 175, 255>>
COLOR_SECTION_HEADING_6 == <<14, 155, 255>>
COLOR_SECTION_HEADING_7 == <<14, 135, 255>>
COLOR_SECTION_HEADING_8 == <<14, 115, 255>>
COLOR_SECTION_HEADING_9 == <<14, 95, 255>>
COLOR_TEXT == <<21, 255, 255>>
COLOR_LIST == <<28, 255, 255>>
COLOR_HEADER == <<35, 255, 255>>
COLOR_FOOTER == <<42, 255, 255>>
COLOR_TABLE_HEADER == <<49, 255, 255>>
COLOR_TABLE == <<56, 255, 255>>
COLOR_TOC == <<77, 255, 255>>
COLOR_QUOTE == <<84, 255, 255>>
COLOR_EQUATION == <<91, 255, 255>>
COLOR_FIGURES == <<98, 255, 255>>
COLOR_TABLE_CAPTIONS == <<105, 255, 255>>
COLOR_FOOTNOTE == <<117, 255, 255>>
COLOR_ANNOTATION == <<122, 255, 255>>
COLOR_BIBLIOGRAPHY == <<130, 255, 255>>
COLOR_FORM_FIELD == <<160, 255, 255>>
COLOR_FORM_TAG == <<167, 255, 255>>

COLORS_SECTION_HEADINGS ==
    {COLOR_SECTION_HEADING_1, COLOR_SECTION_HEADING_2,
     COLOR_SECTION_HEADING_3, COLOR_SECTION_HEADING_4,
     COLOR_SECTION_HEADING_5, COLOR_SECTION_HEADING_6,
     COLOR_SECTION_HEADING_7, COLOR_SECTION_HEADING_8,
     COLOR_SECTION_HEADING_9}

ALL_COLORS ==
    COLORS_SECTION_HEADINGS \cup
    {COLOR_DOCUMENT_TITLE, COLOR_TEXT, COLOR_LIST, COLOR_HEADER,
     COLOR_FOOTER, COLOR_TABLE_HEADER, COLOR_TABLE, COLOR_TOC, COLOR_QUOTE,
     COLOR_EQUATION, COLOR_FIGURES, COLOR_TABLE_CAPTIONS, COLOR_FOOTNOTE,
     COLOR_ANNOTATION, COLOR_BIBLIOGRAPHY, COLOR_FORM_FIELD, COLOR_FORM_TAG}

SAT_MIN == 50
VAL_MIN == 50
VAL_MAX == 255
SAT_VAL_STEP == 2
NONTABLE_VAL_MIN == 200

ENTITIES_HUES_WITHOUT_CYCLING ==
    {c[1] : c \in COLORS_SECTION_HEADINGS \cup
                      {COLOR_DOCUMENT_TITLE, COLOR_TEXT}}

\* the "hue in ENTITIES_HUES_WITHOUT_CYCLING" test of
\* __update_application_color
WithoutCycling_never(hue) == FALSE
WithoutCycling(hue) == hue \in ENTITIES_HUES_WITHOUT_CYCLING

\* __update_application_color: the color the category applies next
NextApplicationColor_lateReset(base_color, color) ==
    IF WithoutCycling(color[1]) THEN color
    ELSE LET val == color[3] - SAT_VAL_STEP
         IN  <<color[1], color[2],
               IF val < VAL_MIN - SAT_VAL_STEP THEN base_color[3] ELSE val>>
NextApplicationColor(base_color, color) ==
    IF WithoutCycling(color[1]) THEN color
    ELSE LET val == color[3] - SAT_VAL_STEP
         IN  <<color[1], color[2],
               IF val < NONTABLE_VAL_MIN THEN base_color[3] ELSE val>>

\* _make_color_cycle_step: returns <<sat, val>>
MakeColorCycleStep_noReset(sat, sat_base, val, val_base, sat_val_step) ==
    <<sat, val - sat_val_step>>
MakeColorCycleStep(sat, sat_base, val, val_base, sat_val_step) ==
    LET v == val - sat_val_step
        s == sat - sat_val_step
    IN  IF v < VAL_MIN
        THEN <<IF s < SAT_MIN THEN sat_base ELSE s, val_base>>
        ELSE <<sat, v>>

\* update_application_color: the key of _used_colors a cell color goes to
UsedKey_noMapping(base_color) == base_color
UsedKey(base_color) ==
    IF base_color[1] = COLOR_TABLE[1] THEN COLOR_TABLE
    ELSE IF base_color[1] = COLOR_TABLE_HEADER[1] THEN COLOR_TABLE_HEADER
    ELSE base_color

NoColor == <<>>
NoEmit == [kind |-> "none", key |-> NoColor, color |-> NoColor,
           prev |-> NoColor, seqBase |-> NoColor, step |-> 0]

ColorPasses == <<"header_footer", "tables", "paragraphs", "figures", "done">>
PassIndex(ph) == CHOOSE i \in 1..Len(ColorPasses) : ColorPasses[i] = ph

\* categories of the paragraphs of the modelled documents
ParCats == {COLOR_DOCUMENT_TITLE, COLOR_SECTION_HEADING_1,
            COLOR_SECTION_HEADING_9, COLOR_TEXT, COLOR_LIST}
\* the modelled tables: number of cells in the header rows and in the normal
\* rows; a nested table sits in the first cell of its table; a document has
\* at most one table in its header and one in its body
HeaderCellCounts == {0, 1, 2}
CellCounts == {1, LongRun}

\* ColorizationHandler.__init__
ColorStart ==
    /\ colorPhase = "header_footer"
    /\ application = [b \in ALL_COLORS |-> b]
    /\ used = [b \in ALL_COLORS |-> {b}]
    /\ frames = <<>>
    /\ lastEmit = NoEmit
    /\ prevEmit = [b \in ALL_COLORS |-> NoColor]
    /\ cycled = 0
    /\ tablesDone = 0
    /\ usedOnlyGrows = TRUE

\* bookkeeping of the history variable usedOnlyGrows
GrowOK ==
    usedOnlyGrows' =
        (usedOnlyGrows /\ \A b \in ALL_COLORS : used[b] \subseteq used'[b])

\* assign_par_color / assign_run_color: paint with the application color,
\* then __update_application_color
AssignParColor(base_color) ==
    LET color == application[base_color]
        next == NextApplicationColor(base_color, color)
        cycling == ~WithoutCycling(color[1])
    IN  /\ lastEmit' = [kind |-> "generic", key |-> base_color,
                        color |-> color, prev |-> prevEmit[base_color],
                        seqBase |-> base_color, step |-> SAT_VAL_STEP]
        /\ prevEmit' = IF cycling
                       THEN [prevEmit EXCEPT ![base_color] = color]
                       ELSE prevEmit
        /\ application' = [application EXCEPT ![base_color] = next]
        /\ used' = IF cycling
                   THEN [used EXCEPT ![base_color] = @ \cup {next}]
                   ELSE used
        /\ cycled' = IF cycling THEN cycled + 1 ELSE cycled
        /\ GrowOK

\* colorize_header_and_footer: a header paragraph
HeaderPar ==
    /\ colorPhase = "header_footer"
    /\ frames = <<>>
    /\ cycled < MaxHeaderPars
    /\ AssignParColor(COLOR_HEADER)
    /\ UNCHANGED <<colorPhase, frames, tablesDone>>

\* colorize_paragraph: a body paragraph of one of the categories
BodyPar ==
    /\ colorPhase = "paragraphs"
    /\ cycled < MaxPars
    /\ \E base_color \in ParCats : AssignParColor(base_color)
    /\ UNCHANGED <<colorPhase, frames, tablesDone>>

\* a running __colorize_rows call
Frame(base_color, role, step, todo, after, nested) ==
    [base |-> base_color, color |-> base_color, role |-> role, step |-> step,
     todo |-> todo, after |-> after, nested |-> nested, painted |-> 0,
     prev |-> NoColor, seqBase |-> base_color, mayNest |-> FALSE]

\* colorize_table: the header rows are colorized first, from
\* base_color_header, then the normal rows from base_color_table
StartTableWith(base_header, base_table, role_header, role_table, step) ==
    \E h \in HeaderCellCounts, n \in CellCounts :
        frames' = <<Frame(base_header, role_header, step, h,
                          [base |-> base_table, role |-> role_table,
                           todo |-> n], FALSE)>>

\* colorize_header_and_footer: a table of the header, sat_val_step=0
HeaderTable ==
    /\ colorPhase = "header_footer"
    /\ frames = <<>>
    /\ tablesDone = 0
    /\ \E h \in HeaderCellCounts :
        frames' = <<Frame(COLOR_HEADER, COLOR_HEADER, 0, h,
                          [base |-> COLOR_HEADER, role |-> COLOR_HEADER,
                           todo |-> 1], FALSE)>>
    /\ UNCHANGED <<colorPhase, application, used, lastEmit, prevEmit, cycled,
                   tablesDone, usedOnlyGrows>>

\* colorize_word_doc: "for table in word_doc.tables: colorize_table(...)"
BodyTable ==
    /\ colorPhase = "tables"
    /\ frames = <<>>
    /\ tablesDone = 0
    /\ StartTableWith(COLOR_TABLE_HEADER, COLOR_TABLE, COLOR_TABLE_HEADER,
                      COLOR_TABLE, SAT_VAL_STEP)
    /\ UNCHANGED <<colorPhase, application, used, lastEmit, prevEmit, cycled,
                   tablesDone, usedOnlyGrows>>

top == frames[Len(frames)]
SetTop(f) == [frames EXCEPT ![Len(frames)] = f]

\* __colorize_rows: one cell is painted with (hue, sat, val), the color is
\* recorded with update_application_color, then the cycle step is made
PaintCell ==
    /\ frames # <<>>
    /\ top.todo > 0
    /\ LET f == top
           sv == MakeColorCycleStep(f.color[2], f.base[2], f.color[3],
                                    f.base[3], f.step)
       IN  /\ lastEmit' = [kind |-> "cell", key |-> f.role,
                           color |-> f.color, prev |-> f.prev,
                           seqBase |-> f.seqBase, step |-> f.step]
           /\ used' = [used EXCEPT ![UsedKey(f.base)] = @ \cup {f.color}]
           /\ frames' = SetTop([f EXCEPT
                                  !.color = <<f.color[1], sv[1], sv[2]>>,
                                  !.prev = f.color,
                                  !.seqBase = f.base,
                                  !.todo = @ - 1,
                                  !.painted = @ + 1,
                                  !.mayNest = TRUE])
    /\ GrowOK
    /\ UNCHANGED <<colorPhase, application, prevEmit, cycled, tablesDone>>

\* __colorize_rows: a table inside the cell painted last is colorized by a
\* new handler with base_color_table=(hue, sat, val), base_color_header=None
StartNested ==
    /\ frames # <<>>
    /\ Len(frames) <= MaxDepth
    /\ top.mayNest
    /\ top.painted = 1
    /\ \E n \in CellCounts :
        frames' = Append(SetTop([top EXCEPT !.mayNest = FALSE]),
                         [Frame(top.color, top.role, top.step, n,
                                [base |-> NoColor, role |-> NoColor,
                                 todo |-> 0], TRUE)
                          EXCEPT !.prev = top.prev,
                                 !.seqBase = top.seqBase])
    /\ UNCHANGED <<colorPhase, application, used, lastEmit, prevEmit, cycled,
                   tablesDone, usedOnlyGrows>>

\* __colorize_rows returns: the header pass is followed by the pass over the
\* normal rows; a nested table hands its last color to the outer loop
\* ("_, (hue, sat, val) = handler.colorize_table()"); colorize_table of a
\* table of the document returns
EndRows ==
    /\ frames # <<>>
    /\ top.todo = 0
    /\ IF top.after.base # NoColor
       THEN /\ frames' = SetTop(Frame(top.after.base, top.after.role,
                                      top.step, top.after.todo,
                                      [base |-> NoColor, role |-> NoColor,
                                       todo |-> 0], FALSE))
            /\ UNCHANGED tablesDone
       ELSE IF top.nested
       THEN /\ frames' =
                LET outer == frames[Len(frames) - 1]
                    rest == SubSeq(frames, 1, Len(frames) - 1)
                IN  [rest EXCEPT ![Len(rest)] =
                        [outer EXCEPT !.color = top.color,
                                      !.prev = top.prev,
                                      !.seqBase = top.seqBase]]
            /\ UNCHANGED tablesDone
       ELSE /\ frames' = <<>>
            /\ tablesDone' = tablesDone + 1
    /\ UNCHANGED <<colorPhase, application, used, lastEmit, prevEmit, cycled,
                   usedOnlyGrows>>

\* colorize_figures: every image is overwritten with COLOR_FIGURES
FigurePaint ==
    /\ colorPhase = "figures"
    /\ lastEmit.kind # "figure"
    /\ lastEmit' = [kind |-> "figure", key |-> COLOR_FIGURES,
                    color |-> COLOR_FIGURES, prev |-> NoColor,
                    seqBase |-> COLOR_FIGURES, step |-> 0]
    /\ UNCHANGED <<colorPhase, application, used, frames, prevEmit, cycled,
                   tablesDone, usedOnlyGrows>>

\* colorize_word_doc goes on with its next pass
NextPass ==
    /\ colorPhase # "done"
    /\ frames = <<>>
    /\ colorPhase' = ColorPasses[PassIndex(colorPhase) + 1]
    /\ cycled' = 0
    /\ tablesDone' = 0
    /\ UNCHANGED <<application, used, frames, lastEmit, prevEmit,
                   usedOnlyGrows>>

NextColor ==
    \/ HeaderPar /\ UNCHANGED <<annotVars, collVars, entVars, heurVars,
                        styleVars, tblVars, structVars, runVars, pipeVars>>
    \/ HeaderTable /\ UNCHANGED <<annotVars, collVars, entVars, heurVars,
                        styleVars, tblVars, structVars, runVars, pipeVars>>
    \/ BodyTable /\ UNCHANGED <<annotVars, collVars, entVars, heurVars,
                        styleVars, tblVars, structVars, runVars, pipeVars>>
    \/ PaintCell /\ UNCHANGED <<annotVars, collVars, entVars, heurVars,
                        styleVars, tblVars, structVars, runVars, pipeVars>>
    \/ StartNested /\ UNCHANGED <<annotVars, collVars, entVars, heurVars,
                        styleVars, tblVars, structVars, runVars, pipeVars>>
    \/ EndRows /\ UNCHANGED <<annotVars, collVars, entVars, heurVars,
                        styleVars, tblVars, structVars, runVars, pipeVars>>
    \/ BodyPar /\ UNCHANGED <<annotVars, collVars, entVars, heurVars,
                        styleVars, tblVars, structVars, runVars, pipeVars>>
    \/ FigurePaint /\ UNCHANGED <<annotVars, collVars, entVars, heurVars,
                        styleVars, tblVars, structVars, runVars, pipeVars>>
    \/ NextPass /\ UNCHANGED <<annotVars, collVars, entVars, heurVars,
                        styleVars, tblVars, structVars, runVars, pipeVars>>

(***************************************************************************)
(* Part D: entities of one page from detection to trimming                 *)
(*                                                                         *)
(* Coordinates are fixed-point numbers with one binary fractional digit:   *)
(* the value v stands for v/2 pixels.  Entity boxes come from the          *)
(* rendered image and are whole pixels; word boxes are rescaled floats.    *)
(***************************************************************************)
Px(n) == 2 * n

\* int(v) for v >= 0
IntTrunc(v) == (v \div 2) * 2

SetMin(S) == CHOOSE m \in S : \A n \in S : m <= n
SetMax(S) == CHOOSE m \in S : \A n \in S : m >= n

\* DEFAULT_FRACTION_NORMAL = 1e-2, kept as the denominator of 1 / 100
DEFAULT_FRACTION_NORMAL_DEN == 100

\* the modelled entity categories, in the order of the page's dictionary
EntityCategories == <<"ENTITY_TEXT_ID", "ENTITY_TABLE_CELL_ID">>
CategoryIds == {EntityCategories[i] : i \in 1..Len(EntityCategories)}
ALLOWED_EMPTY_ENTITY_CATEGORY_IDS ==
    {"ENTITY_TABLE_ID", "ENTITY_TABLE_ROW_ID", "ENTITY_TABLE_COLUMN_ID",
     "ENTITY_TABLE_HEADER_ROW_ID", "ENTITY_TABLE_CELL_ID",
     "ENTITY_TABLE_HEADER_ID", "ENTITY_TABLE_HEADER_CELL_ID",
     "ENTITY_FIGURE_ID", "ENTITY_FORM_FIELD_ID"}
EXCLUDE_ENTITIES_FROM_TRIMMING ==
    {"ENTITY_TABLE_ID", "ENTITY_TABLE_CELL_ID", "ENTITY_TABLE_ROW_ID",
     "ENTITY_TABLE_COLUMN_ID", "ENTITY_TABLE_HEADER_ID",
     "ENTITY_TABLE_HEADER_CELL_ID", "ENTITY_TABLE_HEADER_ROW_ID",
     "ENTITY_FIGURE_ID", "ENTITY_FORM_FIELD_ID"}

\* BoundingBox.box is <<x, y, width, height>>
BoxArea(b) == b[3] * b[4]

BoundingBoxRepr(b) == <<"BoundingBox", b[1], b[2], b[3], b[4]>>

\* Entity.__repr__
EntityRepr(doc_id, page_id, page_num, entity_category, bbox) ==
    <<"Entity", doc_id, page_id, page_num, entity_category,
      BoundingBoxRepr(bbox)>>

\* hashlib.sha1(...).hexdigest(): distinct strings have distinct digests
Sha1(str) == <<"sha1", str>>

\* Entity(...) with __post_init__
Entity(doc_id, page_id, page_num, entity_category, bbox) ==
    [doc_id |-> doc_id, page_id |-> page_id, page_num |-> page_num,
     entity_category |-> entity_category, bbox |-> bbox,
     area |-> BoxArea(bbox),
     id |-> Sha1(EntityRepr(doc_id, page_id, page_num, entity_category,
                            bbox))]

Word(bbox) == [bbox |-> bbox, entity_ids |-> <<>>]

\* inputs: boxes on one text line of a page that is PageSide pixels wide
EntityBoxes ==
    {b \in {<<Px(x), 0, Px(w), Px(1)>> : x \in 0..(PageSide - 1),
                                         w \in 1..PageSide} :
        b[1] + b[3] <= Px(PageSide)}
WordBoxes ==
    {b \in (0..Px(PageSide)) \X {0} \X {1, 2} \X {Px(1)} :
        b[1] + b[3] <= Px(PageSide)}
PageDims == {<<PageSide, PageSide>>,
             <<DEFAULT_FRACTION_NORMAL_DEN * PageSide, PageSide>>}
Thresholds == {<<1, 2>>, <<1, 1>>}

NumEntities == Len(pages_entities[EntityCategories[1]])
               + Len(pages_entities[EntityCategories[2]])

EntStart ==
    /\ entStage = "start"
    /\ page_dims = <<0, 0>>
    /\ threshold = <<0, 1>>
    /\ pages_entities = [c \in CategoryIds |-> <<>>]
    /\ pages_words = <<>>

\* the configuration is loaded and the page is rendered
LoadPage ==
    /\ entStage = "start"
    /\ page_dims' \in PageDims
    /\ threshold' \in Thresholds
    /\ entStage' = "words"
    /\ UNCHANGED <<pages_entities, pages_words>>

\* one word of the page's text is extracted
ExtractWord ==
    /\ entStage = "words"
    /\ Len(pages_words) < MaxWords
    /\ \E b \in WordBoxes : pages_words' = Append(pages_words, Word(b))
    /\ UNCHANGED <<entStage, page_dims, threshold, pages_entities>>

\* one entity is detected in the colorized rendering of the page
DetectEntity ==
    /\ entStage \in {"words", "detect"}
    /\ NumEntities < MaxEntities
    /\ \E c \in CategoryIds, b \in EntityBoxes :
          pages_entities' =
              [pages_entities EXCEPT
                  ![c] = Append(@, Entity("doc", "page", 1, c, b))]
    /\ entStage' = "detect"
    /\ UNCHANGED <<page_dims, threshold, pages_words>>

\* the filter with its result collected in reverse order
RECURSIVE DeduplicateFrom_prepend(_, _, _)
DeduplicateFrom_prepend(entities, i, kept) ==
    IF i > Len(entities) THEN kept
    ELSE DeduplicateFrom_prepend(entities, i + 1,
            IF \E j \in 1..Len(kept) : kept[j].id = entities[i].id
            THEN kept ELSE <<entities[i]>> \o kept)

RECURSIVE DeduplicateFrom(_, _, _)
DeduplicateFrom(entities, i, kept) ==
    IF i > Len(entities) THEN kept
    ELSE DeduplicateFrom(entities, i + 1,
            IF \E j \in 1..Len(kept) : kept[j].id = entities[i].id
            THEN kept ELSE Append(kept, entities[i]))

apply_deduplication_filter(entities) == DeduplicateFrom(entities, 1, <<>>)

apply_size_filter(entities, page_width, page_height) ==
    LET min_width == Px(page_width \div DEFAULT_FRACTION_NORMAL_DEN)
        min_height == Px(page_height \div DEFAULT_FRACTION_NORMAL_DEN)
        check_bbox_size(entity) ==
            entity.bbox[3] >= min_width /\ entity.bbox[4] >= min_height
    IN  SelectSeq(entities, check_bbox_size)

PostprocessEntities ==
    /\ entStage \in {"words", "detect"}
    /\ pages_entities' =
          [c \in CategoryIds |->
              apply_size_filter(
                  apply_deduplication_filter(pages_entities[c]),
                  page_dims[1], page_dims[2])]
    /\ entStage' = "link"
    /\ UNCHANGED <<page_dims, threshold, pages_words>>

area_of_overlap(bbox1, bbox2) ==
    LET x_left == IF bbox1[1] > bbox2[1] THEN bbox1[1] ELSE bbox2[1]
        x_right == IF bbox1[1] + bbox1[3] < bbox2[1] + bbox2[3]
                   THEN bbox1[1] + bbox1[3] ELSE bbox2[1] + bbox2[3]
        y_top == IF bbox1[2] > bbox2[2] THEN bbox1[2] ELSE bbox2[2]
        y_bottom == IF bbox1[2] + bbox1[4] < bbox2[2] + bbox2[4]
                    THEN bbox1[2] + bbox1[4] ELSE bbox2[2] + bbox2[4]
    IN  IF x_right < x_left \/ y_bottom < y_top THEN 0
        ELSE (x_right - x_left) * (y_bottom - y_top)

\* overlap / bbox1.area >= threshold
is_contained_in(bbox1, bbox2, thr) ==
    /\ BoxArea(bbox1) > 0
    /\ area_of_overlap(bbox1, bbox2) * thr[2] >= thr[1] * BoxArea(bbox1)

IdsOf(entities) == [i \in 1..Len(entities) |-> entities[i].id]

find_candidate_entities(word, entities, thr) ==
    LET contains(e) == is_contained_in(word.bbox, e.bbox, thr)
    IN  SelectSeq(entities, contains)

AssignEntitiesToWords ==
    /\ entStage = "link"
    /\ pages_words' =
          [i \in 1..Len(pages_words) |->
              [pages_words[i] EXCEPT !.entity_ids =
                  @ \o IdsOf(find_candidate_entities(pages_words[i],
                          pages_entities[EntityCategories[1]], threshold))
                    \o IdsOf(find_candidate_entities(pages_words[i],
                          pages_entities[EntityCategories[2]], threshold))]]
    /\ entStage' = "content"
    /\ UNCHANGED <<page_dims, threshold, pages_entities>>

\* the filter without the test for linked words
apply_emptiness_filter_keepAll(entities, words) ==
    [c \in CategoryIds |-> entities[c]]

apply_emptiness_filter(entities, words) ==
    LET entity_ids_with_words ==
            UNION {{words[i].entity_ids[j] :
                        j \in 1..Len(words[i].entity_ids)} :
                   i \in 1..Len(words)}
        has_words(entity) == entity.id \in entity_ids_with_words
    IN  [c \in CategoryIds |->
            IF c \in ALLOWED_EMPTY_ENTITY_CATEGORY_IDS THEN entities[c]
            ELSE SelectSeq(entities[c], has_words)]

trim_entity(entity, words_bounding_boxes) ==
    LET x == IntTrunc(SetMin({b[1] : b \in words_bounding_boxes}))
        y == IntTrunc(SetMin({b[2] : b \in words_bounding_boxes}))
        w == IntTrunc(SetMax({b[1] + b[3] : b \in words_bounding_boxes}) - x)
        h == IntTrunc(SetMax({b[2] + b[4] : b \in words_bounding_boxes}) - y)
    IN  [entity EXCEPT !.bbox = <<x, y, w, h>>]

\* the boxes of the words that carry the id among their entity_ids
bounding_boxes_per_entity_id(words, id) ==
    {words[i].bbox : i \in {k \in 1..Len(words) :
        \E j \in 1..Len(words[k].entity_ids) :
            words[k].entity_ids[j] = id}}

apply_trimming_transform(entities, words) ==
    [c \in CategoryIds |->
        IF c \in EXCLUDE_ENTITIES_FROM_TRIMMING THEN entities[c]
        ELSE [i \in 1..Len(entities[c]) |->
                trim_entity(entities[c][i],
                    bounding_boxes_per_entity_id(words, entities[c][i].id))]]

\* min() and max() of an empty sequence raise ValueError in _trim_entity
TrimmingRaises(entities, words) ==
    \E c \in CategoryIds \ EXCLUDE_ENTITIES_FROM_TRIMMING :
        \E i \in 1..Len(entities[c]) :
            bounding_boxes_per_entity_id(words, entities[c][i].id) = {}

\* the emptiness filter's result is stored before trimming starts; an
\* exception of the trimming step ends the page's postprocessing
PostprocessEntitiesContentBased ==
    /\ entStage = "content"
    /\ LET kept == apply_emptiness_filter(pages_entities, pages_words)
       IN  IF TrimmingRaises(kept, pages_words)
           THEN /\ pages_entities' = kept
                /\ entStage' = "failed"
           ELSE /\ pages_entities' =
                      apply_trimming_transform(kept, pages_words)
                /\ entStage' = "done"
    /\ UNCHANGED <<page_dims, threshold, pages_words>>

NextEnt ==
    \/ LoadPage /\ UNCHANGED <<annotVars, collVars, colorVars, heurVars,
                        styleVars, tblVars, structVars, runVars, pipeVars>>
    \/ ExtractWord /\ UNCHANGED <<annotVars, collVars, colorVars, heurVars,
                        styleVars, tblVars, structVars, runVars, pipeVars>>
    \/ DetectEntity /\ UNCHANGED <<annotVars, collVars, colorVars, heurVars,
                        styleVars, tblVars, structVars, runVars, pipeVars>>
    \/ PostprocessEntities /\ UNCHANGED <<annotVars, collVars, colorVars, heurVars,
                        styleVars, tblVars, structVars, runVars, pipeVars>>
    \/ AssignEntitiesToWords /\ UNCHANGED <<annotVars, collVars, colorVars, heurVars,
                        styleVars, tblVars, structVars, runVars, pipeVars>>
    \/ PostprocessEntitiesContentBased
           /\ UNCHANGED <<annotVars, collVars, colorVars, heurVars,
                        styleVars, tblVars, structVars, runVars, pipeVars>>

(***************************************************************************)
(* Part C, detection side: the ranges EntityDetector scans for the outer   *)
(* boxes of tables and table headers                                       *)
(***************************************************************************)
BBOX_COLOR_TOL == 1
HUE_MIN == 0
HUE_MAX == 179
SAT_MAX == 255

lower_bound_with_tol(h, s, v) ==
    LET lo(min, x) == IF min > x - BBOX_COLOR_TOL THEN min
                      ELSE x - BBOX_COLOR_TOL
    IN  <<lo(HUE_MIN, h), lo(SAT_MIN, s), lo(VAL_MIN, v)>>

upper_bound_with_tol(h, s, v) ==
    LET hi(max, x) == IF max < x + BBOX_COLOR_TOL THEN max
                      ELSE x + BBOX_COLOR_TOL
    IN  <<hi(HUE_MAX, h), hi(SAT_MAX, s), hi(VAL_MAX, v)>>

\* cv2.inRange(image, lowerb, upperb) for one pixel
InRange(hsv, range) ==
    \A i \in 1..3 : range[1][i] <= hsv[i] /\ hsv[i] <= range[2][i]

\* _detect_tables: <<lowerb, upperb>> of the scan for the entire table
DetectTablesRange ==
    <<lower_bound_with_tol(COLOR_TABLE_HEADER[1], SAT_MIN, VAL_MIN),
      upper_bound_with_tol(COLOR_TABLE[1], SAT_MAX, VAL_MAX)>>

\* _detect_table_headers: <<lowerb, upperb>> of the scan for the header
DetectTableHeadersRange ==
    <<lower_bound_with_tol(COLOR_TABLE_HEADER[1], COLOR_TABLE_HEADER[2],
                           COLOR_TABLE_HEADER[3]),
      upper_bound_with_tol(COLOR_TABLE_HEADER[1], COLOR_TABLE_HEADER[2],
                           COLOR_TABLE_HEADER[3])>>

(***************************************************************************)
(* Part E: content-aware heuristics of one paragraph                       *)
(*                                                                         *)
(* A text is a sequence of characters; a character is a one-symbol string, *)
(* or a name for a symbol outside ASCII.  A run is a record with its text  *)
(* and underline; `level` is the entry of the heuristic map for the font   *)
(* signature of the run ("none" when the map has no entry).                *)
(***************************************************************************)
FORM_FIELD_SYMBOLS == {"_", ".", "ELLIPSIS"}
QUOTE_SYMBOLS == {"\"", "'"}
\* '-' and the bullet characters
NUMBERING_SYMBOLS == {"-", "BULLET"}
NUMBERING_FOLLOWERS == {".", ":", ")"}

\* the modelled characters by class
Letters == {"a", "J", "o", "h", "n", "D", "e"}
Digits == {"1"}
Whitespace == {" "}
CurlyQuotes == {"LDQUO", "RDQUO"}

\* str.isspace()
isspace(text) ==
    Len(text) > 0 /\ \A i \in 1..Len(text) : text[i] \in Whitespace

\* Paragraph.text
ParText(runs) ==
    LET RECURSIVE cat(_)
        cat(i) == IF i > Len(runs) THEN <<>> ELSE runs[i].text \o cat(i + 1)
    IN  cat(1)

\* the loop of form_check over element.text
has_field_sequence(text, form_field_min_length) ==
    LET RECURSIVE scan(_, _)
        scan(i, current) ==
            IF i > Len(text) THEN FALSE
            ELSE IF text[i] \in FORM_FIELD_SYMBOLS
                 THEN current + 1 >= form_field_min_length
                      \/ scan(i + 1, current + 1)
                 ELSE scan(i + 1, 0)
    IN  scan(1, 0)

is_underlined_whitespace(run, form_field_min_length) ==
    /\ run.underline
    /\ Len(run.text) >= form_field_min_length
    /\ isspace(run.text)

form_check(runs, form_field_min_length) ==
    \/ \E i \in 1..Len(runs) :
          is_underlined_whitespace(runs[i], form_field_min_length)
    \/ has_field_sequence(ParText(runs), form_field_min_length)

quote_check(runs) ==
    LET text == ParText(runs)
    IN  /\ Len(text) > 0
        /\ text[1] = text[Len(text)]
        /\ text[1] \in QUOTE_SYMBOLS

\* run.text.split()[0]
first_word(text) ==
    LET start == CHOOSE i \in 1..Len(text) :
                    /\ text[i] \notin Whitespace
                    /\ \A j \in 1..(i - 1) : text[j] \in Whitespace
        stop == CHOOSE i \in start..Len(text) :
                    /\ \A j \in start..i : text[j] \notin Whitespace
                    /\ (i = Len(text) \/ text[i + 1] \in Whitespace)
    IN  SubSeq(text, start, stop)

\* re '^[0-9]+' + follower and '^\w' + follower, searched in the first word
matches_number_regex(word) ==
    \/ \E n \in 1..(Len(word) - 1) :
          /\ \A i \in 1..n : word[i] \in Digits
          /\ word[n + 1] \in NUMBERING_FOLLOWERS
    \/ /\ Len(word) >= 2
       /\ word[1] \in Letters \cup Digits \cup {"_"}
       /\ word[2] \in NUMBERING_FOLLOWERS

list_check_run(run) ==
    /\ Len(run.text) > 0
    /\ ~isspace(run.text)
    /\ \/ run.text[1] \in NUMBERING_SYMBOLS
       \/ matches_number_regex(first_word(run.text))

list_check(runs) == \A i \in 1..Len(runs) : list_check_run(runs[i])

\* number of field characters at the beginning / at the end of a text
field_chars_at_beginning(text) ==
    Cardinality({n \in 1..Len(text) :
                    \A i \in 1..n : text[i] \in FORM_FIELD_SYMBOLS})
field_chars_at_end(text) ==
    Cardinality({n \in 1..Len(text) :
                    \A i \in (Len(text) - n + 1)..Len(text) :
                        text[i] \in FORM_FIELD_SYMBOLS})

\* the copied run keeps the whole text of the run it was cut from
AppendRun_wholeText(acc, run, text, rec) ==
    [runs |-> Append(acc.runs, run), recs |-> Append(acc.recs, rec)]

\* new_runs.append(copy of run with the text) and
\* color_recommendations.append(rec)
AppendRun(acc, run, text, rec) ==
    [runs |-> Append(acc.runs, [run EXCEPT !.text = text]),
     recs |-> Append(acc.recs, rec)]

\* form_handler, "previously added regular run" with enough field
\* characters across the seam: the previous run is split or replaced, then
\* the beginning of this run becomes a field run
SplitAtSeam(acc, run, beginning) ==
    LET last == Len(acc.runs)
        prev_run == acc.runs[last]
        n_field == field_chars_at_end(prev_run.text)
        n_last == Len(prev_run.text) - n_field
        field_chars == SubSeq(prev_run.text, n_last + 1, Len(prev_run.text))
        prev_done ==
            IF Len(prev_run.text) > n_field
            THEN AppendRun(
                    [runs |-> [acc.runs EXCEPT ![last] =
                                [prev_run EXCEPT
                                    !.text = SubSeq(prev_run.text, 1, n_last)]],
                     recs |-> acc.recs],
                    prev_run, field_chars, COLOR_FORM_FIELD)
            ELSE [runs |-> [acc.runs EXCEPT ![last] =
                                [prev_run EXCEPT !.text = field_chars]],
                  recs |-> [acc.recs EXCEPT ![last] = COLOR_FORM_FIELD]]
    IN  IF Len(beginning) > 0
        THEN AppendRun(prev_done, run, beginning, COLOR_FORM_FIELD)
        ELSE prev_done

\* form_handler, the loop "for pos in range(run_chara_index, len(run.text))"
\* followed by the checks at the end of the run; st holds acc,
\* current_field_text and current_non_field_text
RECURSIVE ScanRun(_, _, _, _, _)
ScanRun(st, run, pos, prev_main_rec, form_field_min_length) ==
    IF pos > Len(run.text)
    THEN LET short == Len(st.field) < form_field_min_length
             non_field == IF short THEN st.non_field \o st.field
                          ELSE st.non_field
             field == IF short THEN <<>> ELSE st.field
             out1 == IF Len(non_field) > 0
                     THEN AppendRun(st.acc, run, non_field, prev_main_rec)
                     ELSE st.acc
         IN  IF Len(field) > 0
             THEN AppendRun(out1, run, field, COLOR_FORM_FIELD)
             ELSE out1
    ELSE LET char == run.text[pos]
         IN  IF char \in FORM_FIELD_SYMBOLS
             THEN ScanRun([st EXCEPT !.field = Append(@, char)], run, pos + 1,
                          prev_main_rec, form_field_min_length)
             ELSE LET st1 ==
                          IF Len(st.field) < form_field_min_length
                          THEN [st EXCEPT
                                  !.non_field = (@ \o st.field) \o <<char>>,
                                  !.field = <<>>]
                          ELSE st
                      st2 ==
                          IF Len(st1.field) >= form_field_min_length
                          THEN [acc |-> AppendRun(
                                          AppendRun(st1.acc, run,
                                                    st1.non_field,
                                                    prev_main_rec),
                                          run, st1.field, COLOR_FORM_FIELD),
                                field |-> <<>>,
                                non_field |-> <<char>>]
                          ELSE st1
                  IN  ScanRun(st2, run, pos + 1, prev_main_rec,
                              form_field_min_length)

\* form_handler, the body of "for run in element.runs"
HandleRun(acc, run, prev_main_rec, form_field_min_length) ==
    IF is_underlined_whitespace(run, form_field_min_length)
    THEN [runs |-> Append(acc.runs, run),
          recs |-> Append(acc.recs, COLOR_FORM_FIELD)]
    ELSE LET run_chara_index == field_chars_at_beginning(run.text)
             beginning == SubSeq(run.text, 1, run_chara_index)
             any == Len(acc.recs) > 0
             prev_is_field == any /\ acc.recs[Len(acc.recs)] = COLOR_FORM_FIELD
             seam == /\ any
                     /\ ~prev_is_field
                     /\ field_chars_at_end(acc.runs[Len(acc.runs)].text)
                            + Len(beginning) >= form_field_min_length
             out1 == IF prev_is_field
                     THEN IF Len(beginning) > 0
                          THEN AppendRun(acc, run, beginning,
                                         COLOR_FORM_FIELD)
                          ELSE acc
                     ELSE IF seam THEN SplitAtSeam(acc, run, beginning)
                     ELSE acc
             current_field_text == IF prev_is_field \/ seam THEN <<>>
                                   ELSE beginning
         IN  ScanRun([acc |-> out1, field |-> current_field_text,
                      non_field |-> <<>>],
                     run, run_chara_index + 1, prev_main_rec,
                     form_field_min_length)

\* form_handler: [runs, recs, main, raised]; raised is the ValueError of the
\* sanity check on the rebuilt paragraph
form_handler(runs, prev_main_rec, form_field_min_length) ==
    LET RECURSIVE loop(_, _)
        loop(i, acc) ==
            IF i > Len(runs) THEN acc
            ELSE loop(i + 1, HandleRun(acc, runs[i], prev_main_rec,
                                       form_field_min_length))
        acc == loop(1, [runs |-> <<>>, recs |-> <<>>])
    IN  [runs |-> acc.runs, recs |-> acc.recs, main |-> prev_main_rec,
         raised |-> ParText(acc.runs) # ParText(runs)]

quote_handler(runs, prev_main_rec) ==
    [runs |-> runs, recs |-> [i \in 1..Len(runs) |-> COLOR_QUOTE],
     main |-> COLOR_QUOTE, raised |-> FALSE]

list_handler(runs, prev_main_rec) ==
    LET RECURSIVE list_charas(_)
        list_charas(i) ==
            IF i > Len(runs) THEN 0
            ELSE (IF list_check_run(runs[i]) THEN Len(runs[i].text) ELSE 0)
                 + list_charas(i + 1)
    IN  [runs |-> runs,
         recs |-> [i \in 1..Len(runs) |->
                     IF list_check_run(runs[i]) THEN COLOR_LIST
                     ELSE prev_main_rec],
         main |-> IF list_charas(1) >= Len(ParText(runs)) THEN COLOR_LIST
                  ELSE prev_main_rec,
         raised |-> FALSE]

\* check_content_heuristics_par; `check` names the check that matched
NoMatch == [check |-> "none", runs |-> <<>>, recs |-> <<>>, main |-> NoColor,
            raised |-> FALSE]
WithCheck(name, res) ==
    [check |-> name, runs |-> res.runs, recs |-> res.recs,
     main |-> res.main, raised |-> res.raised]
\* the quote check is tried before the form check
check_content_heuristics_par_quoteFirst(runs, prev_main_rec, form_field_min_length) ==
    IF quote_check(runs)
    THEN WithCheck("quote", quote_handler(runs, prev_main_rec))
    ELSE IF form_check(runs, form_field_min_length)
    THEN WithCheck("form", form_handler(runs, prev_main_rec,
                                        form_field_min_length))
    ELSE IF list_check(runs)
    THEN WithCheck("list", list_handler(runs, prev_main_rec))
    ELSE NoMatch

check_content_heuristics_par(runs, prev_main_rec, form_field_min_length) ==
    IF form_check(runs, form_field_min_length)
    THEN WithCheck("form", form_handler(runs, prev_main_rec,
                                        form_field_min_length))
    ELSE IF quote_check(runs)
    THEN WithCheck("quote", quote_handler(runs, prev_main_rec))
    ELSE IF list_check(runs)
    THEN WithCheck("list", list_handler(runs, prev_main_rec))
    ELSE NoMatch

COLOR_WHITESPACE == <<0, 0, 0>>
HEURISTIC_LEVEL_BODY == -10
HEURISTIC_LEVEL_TITLE == -20

level_to_color_recommendation(level) ==
    IF level = HEURISTIC_LEVEL_BODY THEN COLOR_TEXT
    ELSE IF level = HEURISTIC_LEVEL_TITLE THEN COLOR_DOCUMENT_TITLE
    ELSE <<COLOR_SECTION_HEADING_1, COLOR_SECTION_HEADING_2,
           COLOR_SECTION_HEADING_3, COLOR_SECTION_HEADING_4,
           COLOR_SECTION_HEADING_5, COLOR_SECTION_HEADING_6,
           COLOR_SECTION_HEADING_7, COLOR_SECTION_HEADING_8,
           COLOR_SECTION_HEADING_9>>[level]

\* check_if_run_whitespace: nothing is left once blanks are removed
check_if_run_whitespace(run) ==
    \A i \in 1..Len(run.text) : run.text[i] \in Whitespace

\* init_or_add_to_count_map on a dict kept in insertion order
init_or_add_to_count_map(mapping, key, count) ==
    IF \E i \in 1..Len(mapping) : mapping[i].key = key
    THEN [i \in 1..Len(mapping) |->
            IF mapping[i].key = key
            THEN [mapping[i] EXCEPT !.count = @ + count] ELSE mapping[i]]
    ELSE Append(mapping, [key |-> key, count |-> count])

\* max(mapping, key=mapping.get): the first key with the largest count
max_count_key(mapping) ==
    LET i == CHOOSE k \in 1..Len(mapping) :
                /\ \A j \in 1..Len(mapping) :
                      mapping[j].count <= mapping[k].count
                /\ \A j \in 1..(k - 1) : mapping[j].count < mapping[k].count
    IN  mapping[i].key

\* get_heuristic_with_runs, the loop over par.runs: the style-based
\* recommendation [recs, counts, whitespace] of the runs
RECURSIVE StyleLoop(_, _, _, _)
StyleLoop(runs, i, st, max_heading_len) ==
    IF i > Len(runs) THEN st
    ELSE LET run == runs[i]
         IN  IF check_if_run_whitespace(run)
             THEN StyleLoop(runs, i + 1,
                    [st EXCEPT
                       !.recs = Append(@, COLOR_WHITESPACE),
                       !.whitespace = @ \cup {Len(st.recs) + 1},
                       !.counts = init_or_add_to_count_map(
                                     @, COLOR_WHITESPACE, -1)],
                    max_heading_len)
             ELSE IF run.level = <<>>
             THEN StyleLoop(runs, i + 1,
                    [st EXCEPT
                       !.recs = Append(@, COLOR_TEXT),
                       !.heading = FALSE,
                       !.counts = init_or_add_to_count_map(
                                     @, COLOR_TEXT, Len(run.text))],
                    max_heading_len)
             ELSE LET run_heuristic ==
                          IF st.heading
                          THEN level_to_color_recommendation(run.level[1])
                          ELSE COLOR_TEXT
                      is_heading ==
                          run_heuristic \in COLORS_SECTION_HEADINGS
                                            \cup {COLOR_DOCUMENT_TITLE}
                      length == st.length + Len(run.text)
                      too_long == is_heading /\ length > max_heading_len
                      recs == Append(st.recs, run_heuristic)
                  IN  StyleLoop(runs, i + 1,
                        [recs |-> IF too_long
                                  THEN [j \in 1..Len(recs) |-> COLOR_TEXT]
                                  ELSE recs,
                         whitespace |-> st.whitespace,
                         heading |-> is_heading /\ ~too_long,
                         length |-> IF is_heading THEN length
                                    ELSE st.length,
                         counts |-> init_or_add_to_count_map(
                                       IF too_long
                                       THEN <<[key |-> COLOR_TEXT,
                                               count |-> 1000]>>
                                       ELSE st.counts,
                                       run_heuristic, Len(run.text))],
                        max_heading_len)

\* get_heuristic_with_runs up to the content-aware check:
\* [main, recs] recommended from the styles alone
StyleRecommendation(runs, max_heading_len) ==
    LET st == StyleLoop(runs, 1,
                  [recs |-> <<>>, whitespace |-> {}, heading |-> TRUE,
                   length |-> 0, counts |-> <<>>], max_heading_len)
        main_color == IF st.counts # <<>> THEN max_count_key(st.counts)
                      ELSE NoColor
    IN  [main |-> main_color,
         recs |-> [j \in 1..Len(st.recs) |->
                     IF j \in st.whitespace /\ st.counts # <<>>
                     THEN main_color ELSE st.recs[j]]]

\* get_heuristic_with_runs: what it returns, what the paragraph's runs are
\* afterwards, and what the style-based recommendation and the content
\* check were
get_heuristic_with_runs(par, config) ==
    LET base_source == IF config.builtin
                       THEN "ANNOTATION_BODY_HEADING_HEURISTIC_USINGBUILTIN"
                       ELSE "ANNOTATION_BODY_HEADING_HEURISTIC_BASE"
        style == StyleRecommendation(par.runs, config.max_heading_len)
        content == check_content_heuristics_par(
                      par.runs, style.main,
                      config.form_field_min_length)
        replaced == /\ content.check # "none"
                    /\ ~content.raised
                    /\ ~(content.main = COLOR_LIST /\ config.builtin)
    IN  IF par.numbered
        THEN [main |-> COLOR_LIST,
              recs |-> [j \in 1..Len(par.runs) |-> COLOR_LIST],
              source |-> "ANNOTATION_XML_PATTERN",
              runs |-> par.runs, raised |-> FALSE,
              check |-> "not evaluated", style |-> style]
        ELSE [main |-> IF replaced THEN content.main ELSE style.main,
              recs |-> IF replaced THEN content.recs ELSE style.recs,
              source |-> IF replaced
                         THEN "ANNOTATION_CONTENT_AWARE_HEURISTIC"
                         ELSE base_source,
              runs |-> IF content.check = "form" /\ ~content.raised
                       THEN content.runs ELSE par.runs,
              raised |-> content.raised,
              check |-> content.check, style |-> style]

\* inputs of the content-aware part
Run(text, underline, level) ==
    [text |-> text, underline |-> underline, level |-> level]

\* all texts of the given length over the characters
RECURSIVE TextsOver(_, _)
TextsOver(chars, n) ==
    IF n = 0 THEN {<<>>}
    ELSE {Append(t, c) : t \in TextsOver(chars, n - 1), c \in chars}

\* the paragraph of the end-to-end scenario of the form handler
ExampleText == <<"_", "_", "_", "_", ":", " ", "J", "o", "h", "n", " ",
                 "D", "o", "e">>

FormAlphabet == {"_", "a", " "}
\* a field of two symbols that also reads as a list item ("\w\.")
FieldText == <<"_", ".">>
CatalogTexts == {<<"\"">>, <<"'">>, <<"LDQUO">>, <<"RDQUO">>, <<"a">>,
                 <<"-", "a">>, <<"1", ".">>, FieldText}
MinLengths == 0..MaxFieldMin

ParLen == Len(ParText(paragraph.runs))
NoHeuristic == [check |-> "pending"]

HeurStart ==
    /\ heurPc = "config"
    /\ heurConfig = [form_field_min_length |-> 0, max_heading_len |-> 0,
                     builtin |-> FALSE]
    /\ paragraph = [numbered |-> FALSE, runs |-> <<>>]
    /\ heuristic = NoHeuristic

\* a document without builtin headings and without numbered paragraphs
LoadFormDocument ==
    /\ heurPc = "config"
    /\ \E k \in MinLengths :
          heurConfig' = [form_field_min_length |-> k,
                         max_heading_len |-> MaxParLen, builtin |-> FALSE]
    /\ heurPc' = "form runs"
    /\ UNCHANGED <<paragraph, heuristic>>

\* a run of blanks, letters and field symbols; the heuristic map has no
\* entry for its font signature
AddFormRun ==
    /\ heurPc = "form runs"
    /\ Len(paragraph.runs) < MaxRuns
    /\ \E n \in 0..(MaxParLen - ParLen) :
          \E text \in TextsOver(FormAlphabet, n) :
             \E underline \in IF isspace(text) THEN BOOLEAN ELSE {FALSE} :
                paragraph' = [paragraph EXCEPT
                                 !.runs = Append(@, Run(text, underline,
                                                        <<>>))]
    /\ UNCHANGED <<heurPc, heurConfig, heuristic>>

AddExampleRun ==
    /\ heurPc = "form runs"
    /\ paragraph.runs = <<>>
    /\ paragraph' = [paragraph EXCEPT
                        !.runs = <<Run(ExampleText, FALSE, <<>>)>>]
    /\ UNCHANGED <<heurPc, heurConfig, heuristic>>

\* a document with or without builtin headings
LoadDocument ==
    /\ heurPc = "config"
    /\ \E builtin \in BOOLEAN, max_heading_len \in {1, MaxParLen},
          numbered \in BOOLEAN :
          /\ heurConfig' = [form_field_min_length |-> Len(FieldText),
                            max_heading_len |-> max_heading_len,
                            builtin |-> builtin]
          /\ paragraph' = [paragraph EXCEPT !.numbered = numbered]
    /\ heurPc' = "runs"
    /\ UNCHANGED heuristic

\* a run of quotes, list markers, letters or field symbols whose font
\* signature is a heading, the body or unknown in the heuristic map
AddRun ==
    /\ heurPc = "runs"
    /\ Len(paragraph.runs) < MaxRuns
    /\ \E text \in CatalogTexts, level \in {<<>>, <<1>>} :
          /\ ParLen + Len(text) <= MaxParLen
          /\ paragraph' = [paragraph EXCEPT
                              !.runs = Append(@, Run(text, FALSE, level))]
    /\ UNCHANGED <<heurPc, heurConfig, heuristic>>

\* ColorizationHandler asks for the recommendation of the paragraph
GetHeuristicWithRuns ==
    /\ heurPc \in {"form runs", "runs"}
    /\ heuristic' = get_heuristic_with_runs(paragraph, heurConfig)
    /\ heurPc' = "done"
    /\ UNCHANGED <<heurConfig, paragraph>>

NextForm ==
    \/ LoadFormDocument /\ UNCHANGED <<annotVars, collVars, colorVars, entVars,
                        styleVars, tblVars, structVars, runVars, pipeVars>>
    \/ AddFormRun /\ UNCHANGED <<annotVars, collVars, colorVars, entVars,
                        styleVars, tblVars, structVars, runVars, pipeVars>>
    \/ AddExampleRun /\ UNCHANGED <<annotVars, collVars, colorVars, entVars,
                        styleVars, tblVars, structVars, runVars, pipeVars>>
    \/ GetHeuristicWithRuns
           /\ UNCHANGED <<annotVars, collVars, colorVars, entVars,
                        styleVars, tblVars, structVars, runVars, pipeVars>>

NextHeur ==
    \/ LoadDocument /\ UNCHANGED <<annotVars, collVars, colorVars, entVars,
                        styleVars, tblVars, structVars, runVars, pipeVars>>
    \/ AddRun /\ UNCHANGED <<annotVars, collVars, colorVars, entVars,
                        styleVars, tblVars, structVars, runVars, pipeVars>>
    \/ GetHeuristicWithRuns
           /\ UNCHANGED <<annotVars, collVars, colorVars, entVars,
                        styleVars, tblVars, structVars, runVars, pipeVars>>

(***************************************************************************)
(* Part F: the style heuristic map.  A font signature is the string        *)
(* str(size) + "b" / "bi" / "i" / "n", kept as the pair <<size, letters>>; *)
(* bold and italic are tri-state: <<>> is None, otherwise <<TRUE>> or      *)
(* <<FALSE>>.  Sizes are in points.                                        *)
(***************************************************************************)
HEURISTIC_FONT_UNKNOWN == -1
MAX_HEADING_LEVEL == 9

Truthy(tri) == tri = <<TRUE>>

build_fontprop_string(fontprops) ==
    <<fontprops.size,
      CASE Truthy(fontprops.bold) /\ Truthy(fontprops.italic) -> "bi"
        [] Truthy(fontprops.bold) -> "b"
        [] Truthy(fontprops.italic) -> "i"
        [] OTHER -> "n">>

compare_runs_in_par(applied_par_props, applied_run_props) ==
    [size |-> IF applied_run_props.size = HEURISTIC_FONT_UNKNOWN
              THEN applied_par_props.size ELSE applied_run_props.size,
     bold |-> IF applied_run_props.bold = <<>>
              THEN applied_par_props.bold ELSE applied_run_props.bold,
     italic |-> IF applied_run_props.italic = <<>>
                THEN applied_par_props.italic ELSE applied_run_props.italic]

\* __evaluate_paragraph: the counts and the tracker after the paragraph
evaluate_paragraph(st, par) ==
    LET props(i) == compare_runs_in_par(par.props, par.runs[i].props)
        sig(i) == build_fontprop_string(props(i))
        RECURSIVE count(_, _)
        count(i, mapping) ==
            IF i > Len(par.runs) THEN mapping
            ELSE count(i + 1, init_or_add_to_count_map(
                                  mapping, sig(i), Len(par.runs[i].text)))
        RECURSIVE appear(_, _)
        appear(i, mapping) ==
            IF i > Len(par.runs) THEN mapping
            ELSE appear(i + 1,
                        IF \E j \in 1..(i - 1) : sig(j) = sig(i) THEN mapping
                        ELSE init_or_add_to_count_map(mapping, sig(i), 1))
        visible == {i \in 1..Len(par.runs) :
                        ~check_if_run_whitespace(par.runs[i])}
        all_runs_bold == \A i \in visible : Truthy(props(i).bold)
        all_runs_italic == \A i \in visible : Truthy(props(i).italic)
        run_font_sizes == {props(i).size : i \in visible}
        heading_props ==
            [size |-> IF Cardinality(run_font_sizes) = 1
                      THEN CHOOSE s \in run_font_sizes : TRUE
                      ELSE par.props.size,
             bold |-> <<Truthy(par.props.bold) \/ all_runs_bold>>,
             italic |-> <<Truthy(par.props.italic) \/ all_runs_italic>>]
    IN  [count |-> count(1, st.count),
         appearances |-> appear(1, st.appearances),
         tracker |-> IF par.heading_level > 0 /\ visible # {}
                     THEN Append(st.tracker,
                                 <<build_fontprop_string(heading_props),
                                   par.heading_level>>)
                     ELSE st.tracker]

EmptyMap == [key \in {} |-> 0]

\* self.heuristic_map[key] = level
Assign(map, key, level) ==
    [k \in DOMAIN map \cup {key} |-> IF k = key THEN level ELSE map[k]]

\* the level kept for a signature a builtin heading was already seen with
BuiltinLevel(possible_prior_level, level) ==
    IF level > possible_prior_level THEN level ELSE possible_prior_level

\* __build_map with builtin headings: the map after the loop over the tracker
BuiltinMap(tracker) ==
    LET RECURSIVE loop(_, _)
        loop(i, map) ==
            IF i > Len(tracker) THEN map
            ELSE LET pair == tracker[i]
                 IN  loop(i + 1,
                          IF pair[1] \in DOMAIN map
                          THEN Assign(map, pair[1],
                                      BuiltinLevel(map[pair[1]], pair[2]))
                          ELSE Assign(map, pair[1], pair[2]))
    IN  loop(1, EmptyMap)

\* lg_to_sm_fonts: the signatures from the largest size to the smallest,
\* within one size in the order b, bi, i, n
lg_to_sm_fonts(mapping) ==
    LET letters == <<"b", "bi", "i", "n">>
        rank(key) == CHOOSE r \in 1..Len(letters) : letters[r] = key[2]
        before(a, b) == \/ a[1] > b[1]
                        \/ a[1] = b[1] /\ rank(a) < rank(b)
        RECURSIVE order(_)
        order(keys) ==
            IF keys = {} THEN <<>>
            ELSE LET first == CHOOSE k \in keys :
                                 \A o \in keys \ {k} : before(k, o)
                 IN  <<first>> \o order(keys \ {first})
    IN  order({mapping[i].key : i \in 1..Len(mapping)})

\* the largest signature is never taken as the title
TitleApplies_never(appearances, font) == FALSE

\* "assign largest to title, if it only appears once"
TitleApplies(appearances, font) ==
    \E i \in 1..Len(appearances) :
        appearances[i].key = font /\ appearances[i].count = 1

\* __build_map without builtin headings
InferenceMap(count, appearances) ==
    IF count = <<>> THEN EmptyMap
    ELSE
    LET common_fnt == max_count_key(count)
        fonts == lg_to_sm_fonts(count)
        body == Assign(EmptyMap, common_fnt, HEURISTIC_LEVEL_BODY)
        title == TitleApplies(appearances, fonts[1])
        titled == Assign(IF title
                         THEN Assign(body, fonts[1], HEURISTIC_LEVEL_TITLE)
                         ELSE body,
                         common_fnt, HEURISTIC_LEVEL_BODY)
        rest == IF title THEN Tail(fonts) ELSE fonts
        RECURSIVE bodies(_, _)
        bodies(map, left) ==
            IF left = <<>> THEN map
            ELSE bodies(Assign(map, left[1], HEURISTIC_LEVEL_BODY),
                        Tail(left))
        RECURSIVE headings(_, _, _)
        headings(map, left, heading_level_count) ==
            IF left = <<>> THEN map
            ELSE IF left[1] = common_fnt THEN bodies(map, Tail(left))
            ELSE headings(Assign(map, left[1], heading_level_count),
                          Tail(left),
                          IF heading_level_count + 1 < MAX_HEADING_LEVEL
                          THEN heading_level_count + 1
                          ELSE MAX_HEADING_LEVEL)
    IN  IF Len(fonts) = 1
        THEN Assign(body, fonts[1], HEURISTIC_LEVEL_BODY)
        ELSE IF Len(rest) > 1 /\ rest[1] # common_fnt
        THEN headings(Assign(titled, rest[1], 1), Tail(rest), 2)
        ELSE titled

build_map(count, appearances, tracker) ==
    IF Len(tracker) > 0 THEN BuiltinMap(tracker)
    ELSE InferenceMap(count, appearances)

\* the documents: paragraphs of one or two runs
FontProps(size, bold) == [size |-> size, bold |-> bold, italic |-> <<>>]
StyledRun(text, size, bold) == [text |-> text, props |-> FontProps(size, bold)]
StyledRunLists ==
    LET plain == StyledRun(<<"a">>, HEURISTIC_FONT_UNKNOWN, <<>>)
        bold == StyledRun(<<"a">>, HEURISTIC_FONT_UNKNOWN, <<TRUE>>)
        large == StyledRun(<<"a">>, 14, <<>>)
        blank == StyledRun(<<" ">>, HEURISTIC_FONT_UNKNOWN, <<>>)
    IN  {<<plain>>, <<bold>>, <<large>>, <<blank>>, <<plain, large>>}
StyledParagraphs ==
    {[props |-> FontProps(size, <<>>), heading_level |-> level, runs |-> runs] :
        size \in {10, 12}, level \in {0, 1, 2}, runs \in StyledRunLists}

StyleStart ==
    /\ stylePc = "evaluating"
    /\ parsEvaluated = 0
    /\ font_size_count = <<>>
    /\ font_size_appearances = <<>>
    /\ builtin_heading_tracker = <<>>
    /\ heuristic_map = EmptyMap

\* __build_map, the loop over the paragraphs of the body
EvaluateParagraph ==
    /\ stylePc = "evaluating"
    /\ parsEvaluated < MaxStylePars
    /\ \E par \in StyledParagraphs :
          LET st == evaluate_paragraph(
                        [count |-> font_size_count,
                         appearances |-> font_size_appearances,
                         tracker |-> builtin_heading_tracker], par)
          IN  /\ font_size_count' = st.count
              /\ font_size_appearances' = st.appearances
              /\ builtin_heading_tracker' = st.tracker
    /\ parsEvaluated' = parsEvaluated + 1
    /\ UNCHANGED <<stylePc, heuristic_map>>

\* __build_map after the loop
BuildMap ==
    /\ stylePc = "evaluating"
    /\ heuristic_map' = build_map(font_size_count, font_size_appearances,
                                  builtin_heading_tracker)
    /\ stylePc' = "built"
    /\ UNCHANGED <<parsEvaluated, font_size_count, font_size_appearances,
                   builtin_heading_tracker>>

NextStyle ==
    \/ EvaluateParagraph /\ UNCHANGED <<annotVars, collVars, colorVars, entVars,
                        heurVars, tblVars, structVars, runVars, pipeVars>>
    \/ BuildMap /\ UNCHANGED <<annotVars, collVars, colorVars, entVars,
                        heurVars, tblVars, structVars, runVars, pipeVars>>

(***************************************************************************)
(* Part G: the properties applied to a table cell.  An attribute that is   *)
(* not defined is None; a defined one holds the name of the place that     *)
(* defined it.                                                             *)
(***************************************************************************)
None == "None"
BORDER_SLOTS == {"color", "space", "sz", "val", "shadow"}
SHD_SLOTS == {"color", "val", "fill"}
TABLE_BORDERS == {"top", "left", "bottom", "right", "insideH", "insideV"}
CELL_BORDERS == TABLE_BORDERS \cup {"tl2br", "tr2bl"}
\* the flags of CnfStyle and of TableLookAttributes (their attribute "val",
\* which no test of the conditional style reads, is left out)
CNF_SLOTS == {"firstRow", "lastRow", "firstColumn", "lastColumn", "oddVBand",
              "evenVBand", "oddHBand", "evenHBand", "firstRowFirstColumn",
              "firstRowLastColumn", "lastRowFirstColumn", "lastRowLastColumn"}
LOOK_SLOTS == {"firstRow", "firstColumn", "lastRow", "lastColumn", "noHBand",
               "noVBand"}
CND_STYLES == {"firstRow", "lastRow", "firstCol", "lastCol", "band1Vert",
               "band2Vert", "band1Horz", "band2Horz", "neCell", "nwCell",
               "seCell", "swCell"}

\* init_zero of the attribute and border classes
ZeroAttrs(slots) == [a \in slots |-> None]
ZeroBorders(names) == [b \in names |-> ZeroAttrs(BORDER_SLOTS)]
ZeroCellProperty == [tc_borders |-> ZeroBorders(CELL_BORDERS),
                     tc_shd |-> ZeroAttrs(SHD_SLOTS)]

fill_border_style(borders, new_borders) ==
    [b \in DOMAIN borders |->
        IF b \in DOMAIN new_borders
        THEN [a \in DOMAIN borders[b] |->
                 IF borders[b][a] # None THEN borders[b][a]
                 ELSE new_borders[b][a]]
        ELSE borders[b]]

fill_shd_style(shd, new_shd) ==
    [s \in DOMAIN shd |-> IF shd[s] # None THEN shd[s] ELSE new_shd[s]]

convert_table_borders_to_cell_borders(cell_loc, tbl_borders) ==
    [top |-> IF cell_loc \in {"top_left", "top", "top_right"}
             THEN tbl_borders.top ELSE tbl_borders.insideH,
     left |-> IF cell_loc \in {"top_left", "left", "bottom_left"}
              THEN tbl_borders.left ELSE tbl_borders.insideV,
     bottom |-> IF cell_loc \in {"bottom_left", "bottom", "bottom_right"}
                THEN tbl_borders.bottom ELSE tbl_borders.insideH,
     right |-> IF cell_loc \in {"top_right", "right", "bottom_right"}
               THEN tbl_borders.right ELSE tbl_borders.insideV,
     insideH |-> ZeroAttrs(BORDER_SLOTS),
     insideV |-> ZeroAttrs(BORDER_SLOTS)]

\* __get_applied_tc_borders: levels 1 to 4
get_applied_tc_borders(cell, cell_loc, parsed) ==
    LET own == fill_border_style(ZeroBorders(CELL_BORDERS), cell.tc_borders)
        direct == fill_border_style(own,
                      convert_table_borders_to_cell_borders(
                          cell_loc, parsed.tbl_borders))
        styled == fill_border_style(direct,
                      convert_table_borders_to_cell_borders(
                          cell_loc, parsed.ref_tbl_props.tbl_borders))
    IN  fill_border_style(styled, parsed.ref_tc_props.tc_borders)

\* __get_applied_tc_shd: levels 1 to 4
get_applied_tc_shd(cell, parsed) ==
    fill_shd_style(
        fill_shd_style(
            fill_shd_style(
                fill_shd_style(ZeroAttrs(SHD_SLOTS), cell.tc_shd),
                parsed.tbl_shading),
            parsed.ref_tbl_props.tbl_shd),
        parsed.ref_tc_props.tc_shd)

\* TableLookAttributes.__post_init__
use_conditional_styling(look) ==
    \/ \E a \in {"firstRow", "firstColumn", "lastRow", "lastColumn"} :
          look[a] \in {"true", "1"}
    \/ \E a \in {"noHBand", "noVBand"} : look[a] \in {"false", "0"}

\* the cnfStyle of the cell, completed from the cnfStyle of the row
cnf_style_of(cell) ==
    [a \in CNF_SLOTS |-> IF cell.tc_cnf[a] # None THEN cell.tc_cnf[a]
                         ELSE cell.tr_cnf[a]]

\* the tests of __get_tc_cond_style_applied, in their order: the flag of the
\* cnfStyle, the flag of the table look, the values of the look that enable
\* the region, and the conditional style of the region
CND_TESTS ==
    <<<<"firstRow", "firstRow", {"1", "true"}, "firstRow">>,
      <<"evenHBand", "noHBand", {"0", "false"}, "band2Horz">>,
      <<"oddHBand", "noHBand", {"0", "false"}, "band1Horz">>,
      <<"lastRow", "lastRow", {"1", "true"}, "lastRow">>,
      <<"firstColumn", "firstColumn", {"1", "true"}, "firstCol">>,
      <<"evenVBand", "noVBand", {"0", "false"}, "band2Vert">>,
      <<"oddVBand", "noVBand", {"0", "false"}, "band1Vert">>,
      <<"lastColumn", "lastColumn", {"1", "true"}, "lastCol">>>>

applied_styles(cnf_style, look) ==
    LET holds(test) == /\ cnf_style[test[1]] \in {"1", "true"}
                       /\ look[test[2]] \in test[3]
        picked == SelectSeq(CND_TESTS, holds)
    IN  [i \in 1..Len(picked) |-> picked[i][4]]

\* __get_tc_cond_style_applied; `failed` stands for the AssertionError of
\* "assert len(applied_styles) == 1".  The borders of a style are objects,
\* never None, so the borders of its table property are never taken.
get_tc_cond_style_applied(cell, parsed) ==
    LET applied == IF use_conditional_styling(parsed.look)
                   THEN applied_styles(cnf_style_of(cell), parsed.look)
                   ELSE <<>>
        block == parsed.ref_cnd_styles[applied[1]]
    IN  IF Len(applied) = 0
        THEN [failed |-> FALSE, applied |-> applied,
              props |-> ZeroCellProperty]
        ELSE IF Len(applied) # 1
        THEN [failed |-> TRUE, applied |-> applied,
              props |-> ZeroCellProperty]
        ELSE [failed |-> FALSE, applied |-> applied,
              props |->
                  [tc_borders |-> block.table_cell_property.tc_borders,
                   tc_shd |-> fill_shd_style(
                                  block.table_cell_property.tc_shd,
                                  block.table_property.tbl_shd)]]

\* __get_tc_props_applied
get_tc_props_applied(cell, cell_loc, parsed) ==
    LET cond == get_tc_cond_style_applied(cell, parsed)
    IN  [failed |-> cond.failed,
         applied |-> cond.applied,
         cond |-> cond.props,
         tc_borders |->
             IF cond.failed THEN ZeroBorders(CELL_BORDERS)
             ELSE fill_border_style(
                      get_applied_tc_borders(cell, cell_loc, parsed),
                      cond.props.tc_borders),
         tc_shd |->
             IF cond.failed THEN ZeroAttrs(SHD_SLOTS)
             ELSE fill_shd_style(get_applied_tc_shd(cell, parsed),
                                 cond.props.tc_shd)]

\* the tables and cells: what a place defines is one of three choices
Attrs(slots, defined, tag) ==
    [a \in slots |-> IF a \in defined THEN tag ELSE None]
BordersOf(names, choice, second, tag) ==
    [b \in names |->
        Attrs(BORDER_SLOTS,
              CASE choice = "none" -> {}
                [] b = "top" -> IF choice = "shaded" \/ second # "top"
                                THEN {"color"} ELSE {"color", "val"}
                [] b = second /\ choice = "borders" -> {"color"}
                [] OTHER -> {},
              tag)]
ShdOf(choice, tag) ==
    Attrs(SHD_SLOTS, IF choice = "shaded" THEN {"fill"} ELSE {}, tag)
Choices == {"none", "shaded", "borders"}
Flags(slots, set) == [a \in slots |-> IF a \in set THEN "1" ELSE "0"]
Looks == {ZeroAttrs(LOOK_SLOTS),
          Flags(LOOK_SLOTS, {"firstRow", "noVBand"}),
          Flags(LOOK_SLOTS, {"firstRow", "firstColumn", "noVBand"})}
CellCnfStyles == {ZeroAttrs(CNF_SLOTS),
                  Flags(CNF_SLOTS, {"firstRow"}),
                  Flags(CNF_SLOTS, {"firstColumn"}),
                  Flags(CNF_SLOTS, {"firstRow", "firstColumn"}),
                  Flags(CNF_SLOTS, {"oddHBand"}),
                  Flags(CNF_SLOTS, {"firstColumn", "oddHBand"})}
RowCnfStyles == {ZeroAttrs(CNF_SLOTS),
                 Flags(CNF_SLOTS, {"firstRow"}),
                 Flags(CNF_SLOTS, {"oddHBand"})}
CellLocations == {"top_left", "center"}

NotParsed == [look |-> ZeroAttrs(LOOK_SLOTS)]
NoCell == [cell_loc |-> "none"]
NoProps == [failed |-> FALSE, applied |-> <<>>]

TblStart ==
    /\ tblPc = "new"
    /\ tblParsed = NotParsed
    /\ tcIn = NoCell
    /\ tcProps = NoProps

\* TableColorizationHandler.__init__: the table properties and the style
ParseTable ==
    /\ tblPc = "new"
    /\ \E direct \in Choices, styled \in Choices, baseline \in Choices,
          block \in Choices, block_tbl \in {"none", "shaded"},
          look \in Looks :
          tblParsed' =
              [tbl_borders |-> BordersOf(TABLE_BORDERS, direct, "insideH",
                                         "tblPr"),
               tbl_shading |-> ShdOf(direct, "tblPr"),
               look |-> look,
               ref_tbl_props |->
                   [tbl_borders |-> BordersOf(TABLE_BORDERS, styled,
                                              "insideH", "style tblPr"),
                    tbl_shd |-> ShdOf(styled, "style tblPr")],
               ref_tc_props |->
                   [tc_borders |-> BordersOf(CELL_BORDERS, baseline, "top",
                                             "style tcPr"),
                    tc_shd |-> ShdOf(baseline, "style tcPr")],
               ref_cnd_styles |->
                   [type \in CND_STYLES |->
                       [table_property |->
                           [tbl_borders |-> BordersOf(TABLE_BORDERS,
                                                block_tbl, "insideH", type),
                            tbl_shd |-> ShdOf(block_tbl, type)],
                        table_cell_property |->
                           [tc_borders |-> BordersOf(CELL_BORDERS, block,
                                                     "top", type),
                            tc_shd |-> ShdOf(block, type)]]]]
    /\ tblPc' = "rows"
    /\ UNCHANGED <<tcIn, tcProps>>

\* __colorize_cell up to the properties applied to the cell, for one cell
\* of the table
ColorizeCell ==
    /\ tblPc = "rows"
    /\ \E own \in Choices, tc_cnf \in CellCnfStyles, tr_cnf \in RowCnfStyles,
          cell_loc \in CellLocations :
          LET cell == [tc_borders |-> BordersOf(CELL_BORDERS, own, "top",
                                                "tcPr"),
                       tc_shd |-> ShdOf(own, "tcPr"),
                       tc_cnf |-> tc_cnf, tr_cnf |-> tr_cnf,
                       cell_loc |-> cell_loc]
              props == get_tc_props_applied(cell, cell_loc, tblParsed)
          IN  /\ tcIn' = cell
              /\ tcProps' = props
              /\ tblPc' = IF props.failed THEN "failed" ELSE "colorized"
    /\ UNCHANGED tblParsed

NextTbl ==
    \/ ParseTable /\ UNCHANGED <<annotVars, collVars, colorVars, entVars,
                        heurVars, styleVars, structVars, runVars, pipeVars>>
    \/ ColorizeCell /\ UNCHANGED <<annotVars, collVars, colorVars, entVars,
                        heurVars, styleVars, structVars, runVars, pipeVars>>

(***************************************************************************)
(* Part H: table rows, columns and header rows inferred from the cells     *)
(* of one page.  Boxes are <<x, y, width, height>> in whole pixels, as     *)
(* cv2.boundingRect returns them.                                          *)
(***************************************************************************)
CELL_CLOSENESS_TOLERANCE == 5

StructCategories ==
    {"ENTITY_TABLE_ID", "ENTITY_TABLE_CELL_ID", "ENTITY_TABLE_HEADER_ID",
     "ENTITY_TABLE_HEADER_CELL_ID", "ENTITY_TABLE_ROW_ID",
     "ENTITY_TABLE_COLUMN_ID", "ENTITY_TABLE_HEADER_ROW_ID"}

\* bbox_utils.is_contained_in: the overlap is all of bbox1
bbox_is_contained_in(bbox1, bbox2) ==
    area_of_overlap(bbox1, bbox2) = BoxArea(bbox1)

\* math.isclose(a, b, abs_tol=CELL_CLOSENESS_TOLERANCE) for whole numbers
isclose(a, b) ==
    (IF a >= b THEN a - b ELSE b - a) <= CELL_CLOSENESS_TOLERANCE

\* the elements of a Python set of coordinates in the order the set is
\* iterated; iteration lists all possible coordinates in the order of the
\* hash table
IterateSet(S, iteration) == SelectSeq(iteration, LAMBDA v : v \in S)

\* _group_rows_raw: one list of cells for every unique y
group_rows_raw(cells, iteration) ==
    LET unique_y == {cells[i][2] : i \in 1..Len(cells)}
        ys == IterateSet(unique_y, iteration)
    IN  [k \in 1..Len(ys) |->
            SelectSeq(cells, LAMBDA c : isclose(c[2], ys[k]))]

\* _group_columns_raw
group_columns_raw(cells, iteration) ==
    LET unique_x == {cells[i][1] : i \in 1..Len(cells)}
        xs == IterateSet(unique_x, iteration)
    IN  [k \in 1..Len(xs) |->
            SelectSeq(cells, LAMBDA c : isclose(c[1], xs[k]))]

\* _extend_rows; tol = CELL_CLOSENESS_TOLERANCE / 2, compared doubled
extend_rows(rows, cells) ==
    [k \in 1..Len(rows) |->
        LET row == rows[k]
            y == SetMax({row[i][2] : i \in 1..Len(row)})
            h == SetMin({row[i][4] : i \in 1..Len(row)})
            row_cells_covering ==
                SelectSeq(cells, LAMBDA c :
                    /\ 2 * c[2] <= 2 * y + CELL_CLOSENESS_TOLERANCE
                    /\ 2 * (c[2] + c[4])
                           >= 2 * (y + h) - CELL_CLOSENESS_TOLERANCE)
            x == SetMin({row_cells_covering[i][1] :
                            i \in 1..Len(row_cells_covering)})
            w == SetMax({row_cells_covering[i][1] + row_cells_covering[i][3] :
                            i \in 1..Len(row_cells_covering)}) - x
        IN  <<x, y, w, h>>]

\* _extend_columns
extend_columns(columns, cells) ==
    [k \in 1..Len(columns) |->
        LET col == columns[k]
            x == SetMax({col[i][1] : i \in 1..Len(col)})
            w == SetMin({col[i][3] : i \in 1..Len(col)})
            col_cells_covering ==
                SelectSeq(cells, LAMBDA c :
                    /\ 2 * c[1] <= 2 * x + CELL_CLOSENESS_TOLERANCE
                    /\ 2 * (c[1] + c[3])
                           >= 2 * (x + w) - CELL_CLOSENESS_TOLERANCE)
            y == SetMin({col_cells_covering[i][2] :
                            i \in 1..Len(col_cells_covering)})
            h == SetMax({col_cells_covering[i][2] + col_cells_covering[i][4] :
                            i \in 1..Len(col_cells_covering)}) - y
        IN  <<x, y, w, h>>]

get_table_rows_from_cells(cells, iteration) ==
    IF Len(cells) = 0 THEN <<>>
    ELSE extend_rows(group_rows_raw(cells, iteration), cells)

get_table_columns_from_cells(cells, iteration) ==
    IF Len(cells) = 0 THEN <<>>
    ELSE extend_columns(group_columns_raw(cells, iteration), cells)

\* the boxes of the cells that lie in the table's box
CellsOfTable(table, table_cell_entities) ==
    LET inside == SelectSeq(table_cell_entities,
                      LAMBDA cell : bbox_is_contained_in(cell.bbox, table.bbox))
    IN  [i \in 1..Len(inside) |-> inside[i].bbox]

\* get_row_and_column_entities: <<row_entities, column_entities>>
get_row_and_column_entities(table_entities, table_cell_entities, is_header, iteration) ==
    LET row_cat == IF is_header THEN "ENTITY_TABLE_HEADER_ROW_ID"
                   ELSE "ENTITY_TABLE_ROW_ID"
        AsEntities(boxes, cat) ==
            [i \in 1..Len(boxes) |-> Entity("doc", "page", 1, cat, boxes[i])]
        RECURSIVE FromTable(_)
        FromTable(t) ==
            IF t > Len(table_entities) THEN <<<<>>, <<>>>>
            ELSE LET table_cells == CellsOfTable(table_entities[t],
                                                 table_cell_entities)
                     rest == FromTable(t + 1)
                     rows == AsEntities(
                         get_table_rows_from_cells(table_cells, iteration),
                         row_cat)
                     cols == IF is_header THEN <<>>
                             ELSE AsEntities(
                                 get_table_columns_from_cells(table_cells,
                                                              iteration),
                                 "ENTITY_TABLE_COLUMN_ID")
                 IN  <<rows \o rest[1], cols \o rest[2]>>
    IN  IF Len(table_entities) = 0 \/ Len(table_cell_entities) = 0
        THEN <<<<>>, <<>>>>
        ELSE FromTable(1)

\* inputs: a table of two columns and up to three rows of which the second
\* starts three pixels below the first, one cell merged over two rows, and
\* a header over the upper part of the table
Coordinates == {0, 3, 10}
TableBoxes == {<<0, 0, 20, 30>>}
TableHeaderBoxes == {<<0, 0, 20, 13>>}
CellBoxes == {<<x, y, 10, 10>> : x \in {0, 10}, y \in Coordinates}
                 \cup {<<0, 0, 10, 20>>}
HeaderCellBoxes == {<<0, 0, 10, 10>>, <<10, 3, 10, 10>>}
DetectedBoxes(c) ==
    IF c = "ENTITY_TABLE_ID" THEN TableBoxes
    ELSE IF c = "ENTITY_TABLE_HEADER_ID" THEN TableHeaderBoxes
    ELSE IF c = "ENTITY_TABLE_CELL_ID" THEN CellBoxes
    ELSE IF c = "ENTITY_TABLE_HEADER_CELL_ID" THEN HeaderCellBoxes
    ELSE {}
\* the orders in which a set of coordinates may be iterated
Iterations ==
    {s \in [1..Cardinality(Coordinates) -> Coordinates] :
        \A i, j \in DOMAIN s : i # j => s[i] # s[j]}

NumStructEntities ==
    Len(entitiesOfPage["ENTITY_TABLE_ID"])
    + Len(entitiesOfPage["ENTITY_TABLE_CELL_ID"])
    + Len(entitiesOfPage["ENTITY_TABLE_HEADER_ID"])
    + Len(entitiesOfPage["ENTITY_TABLE_HEADER_CELL_ID"])

StructStart ==
    /\ structPc = "detected"
    /\ entitiesOfPage = [c \in StructCategories |-> <<>>]
    /\ header_row_entities = <<>>

\* one more entity of the page as postprocess_entities returns it: the
\* lists hold no entity twice
AddDetectedEntity ==
    /\ structPc = "detected"
    /\ NumStructEntities < MaxStructEntities
    /\ \E c \in StructCategories : \E b \in DetectedBoxes(c) :
          /\ \A i \in 1..Len(entitiesOfPage[c]) :
                entitiesOfPage[c][i].bbox # b
          /\ entitiesOfPage' =
                [entitiesOfPage EXCEPT
                    ![c] = Append(@, Entity("doc", "page", 1, c, b))]
    /\ UNCHANGED <<structPc, header_row_entities>>

\* postprocess_tables for the page
PostprocessTables ==
    /\ structPc = "detected"
    /\ \E iteration \in Iterations :
          LET table_entities == entitiesOfPage["ENTITY_TABLE_ID"]
              inferred == get_row_and_column_entities(table_entities,
                              entitiesOfPage["ENTITY_TABLE_CELL_ID"], FALSE,
                              iteration)
              header == get_row_and_column_entities(table_entities,
                            entitiesOfPage["ENTITY_TABLE_HEADER_CELL_ID"],
                            TRUE, iteration)
          IN  /\ entitiesOfPage' =
                    [entitiesOfPage EXCEPT
                        !["ENTITY_TABLE_ROW_ID"] = @ \o inferred[1],
                        !["ENTITY_TABLE_COLUMN_ID"] = @ \o inferred[2]]
              /\ header_row_entities' = header[1]
    /\ structPc' = "done"

NextStruct ==
    \/ AddDetectedEntity /\ UNCHANGED <<annotVars, collVars, colorVars, entVars,
                        heurVars, styleVars, tblVars, runVars, pipeVars>>
    \/ PostprocessTables /\ UNCHANGED <<annotVars, collVars, colorVars, entVars,
                        heurVars, styleVars, tblVars, runVars, pipeVars>>

(***************************************************************************)
(* Part I: an annotation run.  The main process starts the logging         *)
(* process, the monitor and the annotators, joins the annotators, stops    *)
(* the monitor and then the logging process.  Every logger call of any     *)
(* process is a put_nowait of a record on the bounded logging queue        *)
(* (QueueHandler); a record that finds the queue full is dropped.  The     *)
(* queues hold 32 slots per annotator in the program and                   *)
(* QueueSlotsPerWorker slots here.                                         *)
(***************************************************************************)
SourceTarCounts == {1, 2}
CpuCounts == {3, 4}
MaxDocsArgs == {1, 2}

Min2(a, b) == IF a < b THEN a ELSE b
Max2(a, b) == IF a > b THEN a ELSE b

\* np.array_split(source_tars, n): the sizes of the n chunks
array_split(num_tars, n) ==
    [i \in 1..n |-> (num_tars \div n) + (IF i <= num_tars % n THEN 1 ELSE 0)]

\* QueueHandler.emit: k records are put with put_nowait; queue.Full ends in
\* Handler.handleError and the record is lost
LogRecords(queue, k) ==
    queue \o [i \in 1..Min2(k, queue_buffer_size - Len(queue)) |-> "record"]

\* the message of a handled document (annotator_id, status, err_msg,
\* doc_fn, num_pages), of which the monitor's loop depends on none, and the
\* None that stops the monitor
Result(w) == <<"results", w>>
StopResults == <<None>>

\* the process never waited for
Joinable_noWait(pcOfProcess) == TRUE

\* Process.join returns once the process has terminated
Joinable(pcOfProcess) == pcOfProcess = "done"

RunStart ==
    /\ runMain = "start"
    /\ argsMaxDocs = 0
    /\ source_tars_chunks = <<>>
    /\ max_docs_per_process = 0
    /\ queue_buffer_size = 0
    /\ joined = 0
    /\ annotatorPc = <<>>
    /\ annotatorTar = <<>>
    /\ annotatorCounts = <<>>
    /\ handled = <<>>
    /\ results_queue = <<>>
    /\ logging_queue = <<>>
    /\ monitorPc = "new"
    /\ num_docs = 0
    /\ loggerPc = "new"

\* main up to the first join: the queues, the logging process, the monitor
\* and the annotators are created and started, and ten lines are logged
MainSetup ==
    /\ runMain = "start"
    /\ \E num_tars \in SourceTarCounts, num_cpus \in CpuCounts,
          max_docs_arg \in MaxDocsArgs :
          LET num_worker_processes == Min2(num_tars, Max2(num_cpus - 2, 1))
              buffer == QueueSlotsPerWorker * num_worker_processes
          IN  /\ argsMaxDocs' = max_docs_arg
              /\ queue_buffer_size' = buffer
              /\ max_docs_per_process' = max_docs_arg \div num_tars
              /\ source_tars_chunks' =
                    array_split(num_tars, num_worker_processes)
              /\ annotatorPc' = [i \in 1..num_worker_processes |-> "run"]
              /\ annotatorTar' = [i \in 1..num_worker_processes |-> 1]
              /\ annotatorCounts' = [i \in 1..num_worker_processes |-> 0]
              /\ handled' = [i \in 1..num_worker_processes |-> 0]
              /\ logging_queue' =
                    [i \in 1..buffer |-> "record"]
    /\ loggerPc' = "run"
    /\ monitorPc' = "start"
    /\ runMain' = "join_annotators"
    /\ UNCHANGED <<joined, results_queue, num_docs>>

\* AnnotatorProcess._handle_tar: the next member of the archive at hand
HandleMember(w) ==
    /\ w \in DOMAIN annotatorPc
    /\ annotatorPc[w] = "run"
    /\ annotatorTar[w] <= source_tars_chunks[w]
    /\ annotatorCounts[w] < DocsPerTar
    /\ LET member == annotatorCounts[w] + 1
       IN  IF member > max_docs_per_process /\ max_docs_per_process > 0
           THEN \* StopIteration, caught and logged in run
                /\ annotatorTar' = [annotatorTar EXCEPT ![w] = @ + 1]
                /\ annotatorCounts' = [annotatorCounts EXCEPT ![w] = 0]
                /\ logging_queue' = LogRecords(logging_queue, 1)
                /\ UNCHANGED <<results_queue, handled>>
           ELSE \* the document is handled and its result is put
                /\ Len(results_queue) < queue_buffer_size
                /\ results_queue' =
                      Append(results_queue, Result(w))
                /\ handled' = [handled EXCEPT ![w] = @ + 1]
                /\ annotatorCounts' = [annotatorCounts EXCEPT ![w] = member]
                /\ UNCHANGED <<annotatorTar, logging_queue>>
    /\ UNCHANGED <<runMain, argsMaxDocs, source_tars_chunks,
                   max_docs_per_process, queue_buffer_size, joined,
                   annotatorPc, monitorPc, num_docs, loggerPc>>

\* the members of the archive are exhausted: run goes to the next archive
AdvanceTar(w) ==
    /\ w \in DOMAIN annotatorPc
    /\ annotatorPc[w] = "run"
    /\ annotatorTar[w] <= source_tars_chunks[w]
    /\ annotatorCounts[w] = DocsPerTar
    /\ annotatorTar' = [annotatorTar EXCEPT ![w] = @ + 1]
    /\ annotatorCounts' = [annotatorCounts EXCEPT ![w] = 0]
    /\ logging_queue' = LogRecords(logging_queue, 1)
    /\ UNCHANGED <<runMain, argsMaxDocs, source_tars_chunks,
                   max_docs_per_process, queue_buffer_size, joined,
                   annotatorPc, handled, results_queue, monitorPc, num_docs,
                   loggerPc>>

\* AnnotatorProcess.run after its last archive: shutdown, the process ends
AnnotatorFinish(w) ==
    /\ w \in DOMAIN annotatorPc
    /\ annotatorPc[w] = "run"
    /\ annotatorTar[w] > source_tars_chunks[w]
    /\ annotatorPc' = [annotatorPc EXCEPT ![w] = "done"]
    /\ logging_queue' = LogRecords(logging_queue, 1)
    /\ UNCHANGED <<runMain, argsMaxDocs, source_tars_chunks,
                   max_docs_per_process, queue_buffer_size, joined,
                   annotatorTar, annotatorCounts, handled, results_queue,
                   monitorPc, num_docs, loggerPc>>

\* annotator.join() and the line logged after it
MainJoinAnnotator ==
    /\ runMain = "join_annotators"
    /\ joined < Len(annotatorPc)
    /\ Joinable(annotatorPc[joined + 1])
    /\ joined' = joined + 1
    /\ logging_queue' = LogRecords(logging_queue, 1)
    /\ UNCHANGED <<runMain, argsMaxDocs, source_tars_chunks,
                   max_docs_per_process, queue_buffer_size, annotatorPc,
                   annotatorTar, annotatorCounts, handled, results_queue,
                   monitorPc, num_docs, loggerPc>>

\* results_queue.put(None)
MainSignalMonitor ==
    /\ runMain = "join_annotators"
    /\ joined = Len(annotatorPc)
    /\ Len(results_queue) < queue_buffer_size
    /\ results_queue' = Append(results_queue, StopResults)
    /\ runMain' = "join_monitor"
    /\ UNCHANGED <<argsMaxDocs, source_tars_chunks, max_docs_per_process,
                   queue_buffer_size, joined, annotatorPc, annotatorTar,
                   annotatorCounts, handled, logging_queue, monitorPc,
                   num_docs, loggerPc>>

\* monitor_process.join() and the two lines logged after it
MainJoinMonitor ==
    /\ runMain = "join_monitor"
    /\ Joinable(monitorPc)
    /\ logging_queue' = LogRecords(logging_queue, 2)
    /\ runMain' = "signal_logger"
    /\ UNCHANGED <<argsMaxDocs, source_tars_chunks, max_docs_per_process,
                   queue_buffer_size, joined, annotatorPc, annotatorTar,
                   annotatorCounts, handled, results_queue, monitorPc,
                   num_docs, loggerPc>>

\* logging_queue.put_nowait(None): queue.Full ends the main process
MainSignalLogger ==
    /\ runMain = "signal_logger"
    /\ IF Len(logging_queue) < queue_buffer_size
       THEN /\ logging_queue' = Append(logging_queue, None)
            /\ runMain' = "join_logger"
       ELSE /\ runMain' = "queue.Full"
            /\ UNCHANGED logging_queue
    /\ UNCHANGED <<argsMaxDocs, source_tars_chunks, max_docs_per_process,
                   queue_buffer_size, joined, annotatorPc, annotatorTar,
                   annotatorCounts, handled, results_queue, monitorPc,
                   num_docs, loggerPc>>

\* logger_p.join()
MainJoinLogger ==
    /\ runMain = "join_logger"
    /\ Joinable(loggerPc)
    /\ runMain' = "exit"
    /\ UNCHANGED <<argsMaxDocs, source_tars_chunks, max_docs_per_process,
                   queue_buffer_size, joined, annotatorPc, annotatorTar,
                   annotatorCounts, handled, results_queue, logging_queue,
                   monitorPc, num_docs, loggerPc>>

\* AnnotationMonitor.run up to its loop
MonitorStart ==
    /\ monitorPc = "start"
    /\ monitorPc' = "run"
    /\ logging_queue' = LogRecords(logging_queue, 1)
    /\ UNCHANGED <<runMain, argsMaxDocs, source_tars_chunks,
                   max_docs_per_process, queue_buffer_size, joined,
                   annotatorPc, annotatorTar, annotatorCounts, handled,
                   results_queue, num_docs, loggerPc>>

\* one round of the monitor's loop
MonitorGet ==
    /\ monitorPc = "run"
    /\ results_queue # <<>>
    /\ results_queue' = Tail(results_queue)
    /\ IF Head(results_queue)[1] = None
       THEN /\ monitorPc' = "done"
            /\ UNCHANGED num_docs
       ELSE /\ num_docs' = num_docs + 1
            /\ UNCHANGED monitorPc
    /\ logging_queue' = LogRecords(logging_queue, 1)
    /\ UNCHANGED <<runMain, argsMaxDocs, source_tars_chunks,
                   max_docs_per_process, queue_buffer_size, joined,
                   annotatorPc, annotatorTar, annotatorCounts, handled,
                   loggerPc>>

\* one round of main_logger_process
LoggerGet ==
    /\ loggerPc = "run"
    /\ logging_queue # <<>>
    /\ logging_queue' = Tail(logging_queue)
    /\ loggerPc' = IF Head(logging_queue) = None THEN "done" ELSE "run"
    /\ UNCHANGED <<runMain, argsMaxDocs, source_tars_chunks,
                   max_docs_per_process, queue_buffer_size, joined,
                   annotatorPc, annotatorTar, annotatorCounts, handled,
                   results_queue, monitorPc, num_docs>>

RunWorkers == 1..2

NextRun ==
    \/ MainSetup /\ UNCHANGED <<annotVars, collVars, colorVars, entVars,
                        heurVars, styleVars, tblVars, structVars, pipeVars>>
    \/ (\E w \in RunWorkers : HandleMember(w))
           /\ UNCHANGED <<annotVars, collVars, colorVars, entVars,
                        heurVars, styleVars, tblVars, structVars, pipeVars>>
    \/ (\E w \in RunWorkers : AdvanceTar(w))
           /\ UNCHANGED <<annotVars, collVars, colorVars, entVars,
                        heurVars, styleVars, tblVars, structVars, pipeVars>>
    \/ (\E w \in RunWorkers : AnnotatorFinish(w))
           /\ UNCHANGED <<annotVars, collVars, colorVars, entVars,
                        heurVars, styleVars, tblVars, structVars, pipeVars>>
    \/ MainJoinAnnotator /\ UNCHANGED <<annotVars, collVars, colorVars, entVars,
                        heurVars, styleVars, tblVars, structVars, pipeVars>>
    \/ MainSignalMonitor /\ UNCHANGED <<annotVars, collVars, colorVars, entVars,
                        heurVars, styleVars, tblVars, structVars, pipeVars>>
    \/ MainJoinMonitor /\ UNCHANGED <<annotVars, collVars, colorVars, entVars,
                        heurVars, styleVars, tblVars, structVars, pipeVars>>
    \/ MainSignalLogger /\ UNCHANGED <<annotVars, collVars, colorVars, entVars,
                        heurVars, styleVars, tblVars, structVars, pipeVars>>
    \/ MainJoinLogger /\ UNCHANGED <<annotVars, collVars, colorVars, entVars,
                        heurVars, styleVars, tblVars, structVars, pipeVars>>
    \/ MonitorStart /\ UNCHANGED <<annotVars, collVars, colorVars, entVars,
                        heurVars, styleVars, tblVars, structVars, pipeVars>>
    \/ MonitorGet /\ UNCHANGED <<annotVars, collVars, colorVars, entVars,
                        heurVars, styleVars, tblVars, structVars, pipeVars>>
    \/ LoggerGet /\ UNCHANGED <<annotVars, collVars, colorVars, entVars,
                        heurVars, styleVars, tblVars, structVars, pipeVars>>

(***************************************************************************)
(* Part J: batch provider and workers around one bounded inputs queue      *)
(***************************************************************************)
Pipelines == {"cc_parse_snapshot", "download_run"}
PipeWorkerCounts == {1, 2}
INPUT_SLOTS_PER_WORKER == 4

\* the num_workers argument main gives to the provider
ProviderNumWorkers(program, num_worker_processes) ==
    IF program = "cc_parse_snapshot"
    THEN 1                      \* URIBatchProvider(inputs_queue, args.input, 10, 1)
    ELSE num_worker_processes   \* num_workers=num_worker_processes

PipeStart ==
    /\ pipeline = "none"
    /\ pipeMain = "start"
    /\ pipeWorkerPc = <<>>
    /\ pipeJoined = 0
    /\ providerPc = "new"
    /\ batchesLeft = 0
    /\ stopsLeft = 0
    /\ inputs_queue = <<>>

\* main up to provider_process.join(): the workers and the provider are
\* started
PipeMainSetup ==
    /\ pipeMain = "start"
    /\ \E program \in Pipelines, num_worker_processes \in PipeWorkerCounts,
          batches \in 0..MaxBatches :
          /\ pipeline' = program
          /\ pipeWorkerPc' = [i \in 1..num_worker_processes |-> "run"]
          /\ batchesLeft' = batches
          /\ stopsLeft' = ProviderNumWorkers(program, num_worker_processes)
    /\ providerPc' = "batches"
    /\ pipeMain' = "join_provider"
    /\ UNCHANGED <<pipeJoined, inputs_queue>>

InputsQueueFull ==
    Len(inputs_queue) >= INPUT_SLOTS_PER_WORKER * Len(pipeWorkerPc)

\* the provider puts one batch
ProviderPutBatch ==
    /\ providerPc = "batches"
    /\ batchesLeft > 0
    /\ ~InputsQueueFull
    /\ inputs_queue' = Append(inputs_queue, "batch")
    /\ batchesLeft' = batchesLeft - 1
    /\ UNCHANGED <<pipeline, pipeMain, pipeWorkerPc, pipeJoined, providerPc,
                   stopsLeft>>

\* the provider puts one None; after the last one its run returns
ProviderPutStop ==
    /\ providerPc = "batches"
    /\ batchesLeft = 0
    /\ IF stopsLeft = 0
       THEN /\ providerPc' = "done"
            /\ UNCHANGED <<inputs_queue, stopsLeft>>
       ELSE /\ ~InputsQueueFull
            /\ inputs_queue' = Append(inputs_queue, None)
            /\ stopsLeft' = stopsLeft - 1
            /\ UNCHANGED providerPc
    /\ UNCHANGED <<pipeline, pipeMain, pipeWorkerPc, pipeJoined, batchesLeft>>

\* one round of CCURLProcess.run / DownloadProcess.run
PipeWorkerGet(w) ==
    /\ w \in DOMAIN pipeWorkerPc
    /\ pipeWorkerPc[w] = "run"
    /\ inputs_queue # <<>>
    /\ inputs_queue' = Tail(inputs_queue)
    /\ pipeWorkerPc' =
          [pipeWorkerPc EXCEPT
              ![w] = IF Head(inputs_queue) = None THEN "done" ELSE "run"]
    /\ UNCHANGED <<pipeline, pipeMain, pipeJoined, providerPc, batchesLeft,
                   stopsLeft>>

\* provider_process.join()
PipeJoinProvider ==
    /\ pipeMain = "join_provider"
    /\ Joinable(providerPc)
    /\ pipeMain' = "join_workers"
    /\ UNCHANGED <<pipeline, pipeWorkerPc, pipeJoined, providerPc,
                   batchesLeft, stopsLeft, inputs_queue>>

\* the loop of joins over the workers; after the last one main returns
PipeJoinWorker ==
    /\ pipeMain = "join_workers"
    /\ IF pipeJoined = Len(pipeWorkerPc)
       THEN /\ pipeMain' = "exit"
            /\ UNCHANGED pipeJoined
       ELSE /\ Joinable(pipeWorkerPc[pipeJoined + 1])
            /\ pipeJoined' = pipeJoined + 1
            /\ UNCHANGED pipeMain
    /\ UNCHANGED <<pipeline, pipeWorkerPc, providerPc, batchesLeft,
                   stopsLeft, inputs_queue>>

NextPipe ==
    \/ PipeMainSetup /\ UNCHANGED <<annotVars, collVars, colorVars, entVars,
                        heurVars, styleVars, tblVars, structVars, runVars>>
    \/ ProviderPutBatch /\ UNCHANGED <<annotVars, collVars, colorVars, entVars,
                        heurVars, styleVars, tblVars, structVars, runVars>>
    \/ ProviderPutStop /\ UNCHANGED <<annotVars, collVars, colorVars, entVars,
                        heurVars, styleVars, tblVars, structVars, runVars>>
    \/ (\E w \in RunWorkers : PipeWorkerGet(w))
           /\ UNCHANGED <<annotVars, collVars, colorVars, entVars,
                        heurVars, styleVars, tblVars, structVars, runVars>>
    \/ PipeJoinProvider /\ UNCHANGED <<annotVars, collVars, colorVars, entVars,
                        heurVars, styleVars, tblVars, structVars, runVars>>
    \/ PipeJoinWorker /\ UNCHANGED <<annotVars, collVars, colorVars, entVars,
                        heurVars, styleVars, tblVars, structVars, runVars>>

(***************************************************************************)
(* Specifications                                                          *)
(***************************************************************************)
Init ==
    /\ AnnotStart /\ CollStart /\ ColorStart /\ EntStart /\ HeurStart
    /\ StyleStart /\ TblStart /\ StructStart /\ RunStart /\ PipeStart

SpecAnnot == Init /\ [][NextAnnot]_vars
SpecColl == Init /\ [][NextColl]_vars
SpecColor == Init /\ [][NextColor]_vars
SpecEnt == Init /\ [][NextEnt]_vars
SpecForm == Init /\ [][NextForm]_vars
SpecHeur == Init /\ [][NextHeur]_vars
SpecStyle == Init /\ [][NextStyle]_vars
SpecTbl == Init /\ [][NextTbl]_vars
SpecStruct == Init /\ [][NextStruct]_vars
SpecRun == Init /\ [][NextRun]_vars
SpecRunLive == Init /\ [][NextRun]_vars /\ WF_vars(NextRun)
SpecPipe == Init /\ [][NextPipe]_vars
SpecPipeLive == Init /\ [][NextPipe]_vars /\ WF_vars(NextPipe)

(***************************************************************************)
(* Part A: properties                                                      *)
(***************************************************************************)
Finished(d) == \E i \in 1..Len(outputQueue) : outputQueue[i].doc = d
Succeeded(d) ==
    \E i \in 1..Len(outputQueue) :
        outputQueue[i].doc = d /\ outputQueue[i].status = STATUS_SUCCESS
FailRecorded(d) == \E r \in failedFile : r.doc = d
Passed(d) ==
    \/ tarIdx > TarOf(d)
    \/ tarIdx = TarOf(d) /\ memberIdx > IdxOf(d)
WithinLimit(d) == max_docs = 0 \/ IdxOf(d) <= max_docs
Consecutive(d1, d2) ==
    /\ d1 \in Documents /\ d2 \in Documents /\ d1 < d2
    /\ \A m \in Documents : ~(d1 < m /\ m < d2)
ConversionExceptions == {"ConversionFailedException", "SofficeStartFailed"}
Abandoned == {d \in Members : raised[d] \in ConversionExceptions}

\* C1: every finished document has either all of its output written and is
\* reported as a success with no failure record, or has a failure record and
\* none of its output written.
C1_AllOrNothing ==
    \A d \in Members :
        Finished(d) =>
            \/ Succeeded(d) /\ out[d] = FullOutput /\ ~FailRecorded(d)
            \/ ~Succeeded(d) /\ FailRecorded(d) /\ out[d] = NoOutput

\* C2 (as stated): after a timeout, a non-zero exit code or a dead health
\* check no request is issued before a restart, and the document that
\* triggered it is recorded as failed with no further conversion request.
C2_Original ==
    /\ ~sentStale
    /\ \A d \in convFailedDocs \cup healthDeadDocs :
           /\ FailRecorded(d)
           /\ d \notin reqAfterConvFail \cup reqAfterHealthDead

\* C2 (amended): after a timeout or a non-zero exit code no conversion
\* request is issued before a renderer start has succeeded, and the document
\* is recorded as failed with no further conversion request; after a dead
\* health check the renderer is restarted and the request of the same
\* document is issued to the restarted renderer, the document being
\* abandoned only when that restart fails.
C2_RestartBeforeNextRequest ==
    /\ ~sentStale
    /\ \A d \in convFailedDocs :
           /\ FailRecorded(d)
           /\ raised[d] \in ConversionExceptions
           /\ d \notin reqAfterConvFail
    /\ \A d \in healthDeadDocs :
           /\ restartCalls >= 1
           /\ d \in reqAfterHealthDead => ~sentToDead
           /\ (d \notin reqAfterHealthDead /\ Passed(d))
                  => raised[d] = "SofficeStartFailed"

C2_Witness ==
    \E d1, d2 \in Documents :
        /\ d1 < d2
        /\ d1 \in convFailedDocs
        /\ d2 \in requested
        /\ healthDeadDocs # {}

\* C3 (as stated): when the conversions of exactly two consecutive documents
\* timed out, exactly two restarts were issued and two documents abandoned,
\* and no request went to a dead handle.
C3_Original ==
    \A d1, d2 \in Documents :
        (/\ Consecutive(d1, d2)
         /\ convFailedDocs = {d1, d2}
         /\ Passed(d2))
        => /\ restartCalls = 2
           /\ Cardinality(Abandoned) = 2
           /\ ~sentToDead

\* C3 (amended): every timed-out (or non-zero) conversion issues exactly one
\* forced restart and abandons its document; every further restart is issued
\* by a health check that found the handle dead; no request is ever sent to
\* a dead handle.
C3_RestartCount ==
    /\ restartCalls = Cardinality(convFailedDocs) + healthDead
    /\ convFailedDocs \subseteq Abandoned
    /\ ~sentToDead

C3_Witness ==
    \E d1, d2 \in Documents :
        /\ Consecutive(d1, d2)
        /\ convFailedDocs = {d1, d2}
        /\ Passed(d2)
        /\ restartCalls = 3
        /\ Cardinality(Abandoned) = 2

PutsOf(w) == SelectSeq(consumed \o data_q, LAMBDA x : x.from = w)
StopsOf(w) == SelectSeq(PutsOf(w), LAMBDA x : x.stop)
CollectorStarved ==
    /\ collectorPc = "run"
    /\ data_q = <<>>
    /\ \A w \in Producers : formatterPc[w] = "exited"
C4_SentinelProtocol ==
    /\ \A w \in Producers :
           formatterPc[w] = "exited" =>
               /\ Len(StopsOf(w)) = 1
               /\ PutsOf(w)[Len(PutsOf(w))].stop
    /\ collectorPc = "done" =>
           /\ seen_stop_sigs = Cardinality(Producers)
           /\ \A w \in Producers : formatterPc[w] = "exited"
    /\ ~CollectorStarved

(***************************************************************************)
(* Part C: properties                                                      *)
(***************************************************************************)
NoCyclingCats == COLORS_SECTION_HEADINGS \cup {COLOR_DOCUMENT_TITLE, COLOR_TEXT}
Painted == lastEmit.kind # "none"

\* C6: the color painted last is in the used set stored under the base color
\* of the painted element's category, and no used set ever lost a color, so
\* every color painted so far is in the used set of its category.
C6_PaintedIsUsed ==
    /\ Painted => lastEmit.color \in used[lastEmit.key]
    /\ usedOnlyGrows

C6_Witness ==
    /\ lastEmit.kind = "cell"
    /\ Len(frames) = 2
    /\ lastEmit.key = COLOR_TABLE_HEADER
    /\ lastEmit.color # COLOR_TABLE_HEADER

\* C7: the value of every painted color lies within [VAL_MIN, VAL_MAX].
C7_ValueInRange ==
    Painted => (VAL_MIN <= lastEmit.color[3] /\ lastEmit.color[3] <= VAL_MAX)

C7_Witness ==
    /\ lastEmit.kind = "cell"
    /\ lastEmit.prev # NoColor
    /\ lastEmit.prev[3] = VAL_MIN + 1
    /\ lastEmit.color[3] = VAL_MAX

\* C8 (as stated): the value of an emission of a cycling category is the
\* value of the previous emission minus the step, except that it is the
\* base value exactly when the decremented value is below VAL_MIN - step.
C8_Original ==
    (Painted /\ lastEmit.prev # NoColor) =>
        LET dec == lastEmit.prev[3] - lastEmit.step
        IN  lastEmit.color[3] =
                IF dec < VAL_MIN - lastEmit.step THEN lastEmit.key[3]
                ELSE dec

\* C8 (amended): the value of an emission is the value of the previous
\* emission of the same sequence minus the step, except that it is the base
\* value of the sequence exactly when the decremented value is below the
\* floor: NONTABLE_VAL_MIN for paragraphs and runs, VAL_MIN for table cells,
\* whose base is the base color of the table that makes the step.
C8_CycleStep ==
    (Painted /\ lastEmit.prev # NoColor) =>
        LET dec == lastEmit.prev[3] - lastEmit.step
            floor == IF lastEmit.kind = "cell" THEN VAL_MIN
                     ELSE NONTABLE_VAL_MIN
        IN  lastEmit.color[3] =
                IF dec < floor THEN lastEmit.seqBase[3] ELSE dec

C8_Witness ==
    /\ lastEmit.kind = "generic"
    /\ lastEmit.key = COLOR_LIST
    /\ lastEmit.prev # NoColor
    /\ lastEmit.prev[3] = NONTABLE_VAL_MIN + 1
    /\ lastEmit.color[3] = COLOR_LIST[3]

\* C9: a paragraph or run of the title, of a heading level or of body text
\* is painted with exactly the base color of its category.
C9_NoCyclingUsesBase ==
    (lastEmit.kind = "generic" /\ lastEmit.key \in NoCyclingCats) =>
        lastEmit.color = lastEmit.key

C9_Witness ==
    /\ lastEmit.kind = "generic"
    /\ lastEmit.key = COLOR_SECTION_HEADING_9
    /\ colorPhase = "paragraphs"
    /\ cycled >= 2
    /\ prevEmit[COLOR_HEADER] # NoColor

\* C11: every shade painted onto a table cell lies inside the range that
\* _detect_tables scans for the outer box of the table, and every shade
\* painted onto a table-header cell lies inside the range that
\* _detect_table_headers scans for the outer box of the header.
C11_CellShadeInOuterRange ==
    (Painted /\ lastEmit.kind = "cell") =>
        /\ lastEmit.key = COLOR_TABLE =>
              InRange(lastEmit.color, DetectTablesRange)
        /\ lastEmit.key = COLOR_TABLE_HEADER =>
              InRange(lastEmit.color, DetectTableHeadersRange)

\* _detect_generic and the cell scans: <<lowerb, upperb>> of one used color
ScanRange(hsv_color) ==
    <<lower_bound_with_tol(hsv_color[1], hsv_color[2], hsv_color[3]),
      upper_bound_with_tol(hsv_color[1], hsv_color[2], hsv_color[3])>>

AllUsed == UNION {used[k] : k \in ALL_COLORS}

\* C29: the ranges scanned for two distinct used colors of the document
\* are disjoint: no pixel value lies in both.
C29_ScanRangesDisjoint ==
    \A c1, c2 \in AllUsed :
        c1 # c2 =>
            \E i \in 1..3 :
                \/ ScanRange(c1)[2][i] < ScanRange(c2)[1][i]
                \/ ScanRange(c2)[2][i] < ScanRange(c1)[1][i]

(***************************************************************************)
(* Part D: properties                                                      *)
(***************************************************************************)
\* the entities of the page, by category and position in the list
EntityAt == {<<c, i>> \in CategoryIds \X (1..MaxEntities) :
                i <= Len(pages_entities[c])}
FieldsOf(p) ==
    LET e == pages_entities[p[1]][p[2]]
    IN  <<e.doc_id, e.page_id, e.page_num, e.entity_category, e.bbox>>
IdOf(p) == pages_entities[p[1]][p[2]].id
HashOfFields(p) ==
    LET e == pages_entities[p[1]][p[2]]
    IN  Sha1(EntityRepr(e.doc_id, e.page_id, e.page_num, e.entity_category,
                        e.bbox))

\* C10: at every stage (after detection, after word linking, after
\* trimming) the id of each entity is the hash of its current doc_id,
\* page_id, page_num, category and bounding box, and two entities have the
\* same id exactly when all their other fields are identical.
C10_IdIsHashOfFields ==
    /\ \A p \in EntityAt : IdOf(p) = HashOfFields(p)
    /\ \A p, q \in EntityAt :
          (IdOf(p) = IdOf(q)) <=> (FieldsOf(p) = FieldsOf(q))

\* the words linked to the entity at position p
LinkedWordBoxes(p) == bounding_boxes_per_entity_id(pages_words, IdOf(p))

\* the smallest axis-aligned box that contains every box of S
TightestBox(S) ==
    LET x0 == SetMin({b[1] : b \in S})
        y0 == SetMin({b[2] : b \in S})
    IN  <<x0, y0, SetMax({b[1] + b[3] : b \in S}) - x0,
          SetMax({b[2] + b[4] : b \in S}) - y0>>

Trimmable == {p \in EntityAt : p[1] \notin EXCLUDE_ENTITIES_FROM_TRIMMING}

\* C23: after trimming, the bounding box of every entity whose category is
\* not excluded from trimming is the tightest axis-aligned box enclosing
\* all words linked to that entity.
C23_TrimmedBoxIsTightest ==
    entStage = "done" =>
        \A p \in Trimmable :
            LinkedWordBoxes(p) # {} =>
                pages_entities[p[1]][p[2]].bbox
                    = TightestBox(LinkedWordBoxes(p))

\* C24: applying the deduplication filter to its own output returns that
\* output unchanged, the same entities in the same order, for every list
\* of detected entities, lists with a repeated id included; the lists the
\* pipeline carries after the filter are such outputs.
C24_DedupIdempotent ==
    \A c \in CategoryIds :
        LET once == apply_deduplication_filter(pages_entities[c])
        IN  /\ apply_deduplication_filter(once) = once
            /\ entStage = "link" => once = pages_entities[c]

\* a list of two detected entities with two different ids, and a list in
\* which one id occurs twice
C24_Witness ==
    /\ entStage = "detect"
    /\ \E c \in CategoryIds :
          /\ Len(pages_entities[c]) = 2
          /\ pages_entities[c][1].id = pages_entities[c][2].id
          /\ Len(apply_deduplication_filter(pages_entities[c])) = 1

\* C30: the trimming step never computes the tightest box of an empty set
\* of words: every entity that survives the emptiness filter without a
\* linked word belongs to a category that is excluded from trimming.
C30_TrimmingHasWords ==
    /\ entStage # "failed"
    /\ entStage = "done" =>
          \A p \in EntityAt :
              LinkedWordBoxes(p) = {}
                  => p[1] \in EXCLUDE_ENTITIES_FROM_TRIMMING

\* a page that ends with a table cell without words next to a trimmed text
\* entity
C30_Witness ==
    /\ entStage = "done"
    /\ \E p \in EntityAt :
          p[1] \in EXCLUDE_ENTITIES_FROM_TRIMMING /\ LinkedWordBoxes(p) = {}
    /\ \E p \in Trimmable : LinkedWordBoxes(p) # {}

(***************************************************************************)
(* Part E: properties                                                      *)
(***************************************************************************)
\* the content checks were reached and the recommendation was returned
HeurDone == heurPc = "done" /\ ~paragraph.numbered

\* the first check that matches the paragraph, in the order form-field,
\* quote, list
FirstMatch ==
    IF form_check(paragraph.runs, heurConfig.form_field_min_length)
    THEN "form"
    ELSE IF quote_check(paragraph.runs) THEN "quote"
    ELSE IF list_check(paragraph.runs) THEN "list"
    ELSE "none"

StyleKept ==
    /\ heuristic.main = heuristic.style.main
    /\ heuristic.recs = heuristic.style.recs
    /\ heuristic.source # "ANNOTATION_CONTENT_AWARE_HEURISTIC"

\* the recommendation is the output of the named handler and of no other
HandlerOutput(name) ==
    LET all(c) == /\ heuristic.main = c
                  /\ \A i \in 1..Len(heuristic.recs) : heuristic.recs[i] = c
        content == heuristic.source = "ANNOTATION_CONTENT_AWARE_HEURISTIC"
    IN  CASE name = "form" ->
                /\ content
                /\ heuristic.main = heuristic.style.main
                /\ Len(heuristic.recs) = Len(heuristic.runs)
                /\ \A i \in 1..Len(heuristic.recs) :
                      heuristic.recs[i] \in
                          {COLOR_FORM_FIELD, heuristic.style.main}
          [] name = "quote" -> content /\ all(COLOR_QUOTE)
          [] name = "list" -> content /\ all(COLOR_LIST)
          [] OTHER -> StyleKept

\* C12 (as stated): the checks are evaluated in the order form-field,
\* quote, list; the handler of the first check that matches fires, no other
\* does, and its output replaces the style-based recommendation.
C12_Original == heurPc = "done" => HandlerOutput(FirstMatch)

\* C12 (amended): as stated for every paragraph without XML list numbering,
\* except that the output of the list handler is dropped and the style-based
\* recommendation kept when builtin headings were observed in the document;
\* a paragraph with XML list numbering is recommended as a list before any
\* content check is evaluated.
C12_FirstMatchReplaces ==
    heurPc = "done" =>
        IF paragraph.numbered
        THEN /\ heuristic.main = COLOR_LIST
             /\ heuristic.recs = [i \in 1..Len(paragraph.runs) |-> COLOR_LIST]
             /\ heuristic.source = "ANNOTATION_XML_PATTERN"
        ELSE IF FirstMatch = "list" /\ heurConfig.builtin THEN StyleKept
        ELSE HandlerOutput(FirstMatch)

\* a paragraph that is a quote and holds a field: the form handler fired
C12_Witness ==
    /\ HeurDone
    /\ quote_check(paragraph.runs)
    /\ heuristic.check = "form"
    /\ \E i \in 1..Len(heuristic.recs) : heuristic.recs[i] = COLOR_FORM_FIELD
    /\ heuristic.main = COLOR_TEXT

\* the recommendation of every character of the rebuilt runs
CharRecs ==
    LET RECURSIVE cat(_)
        cat(i) == IF i > Len(heuristic.runs) THEN <<>>
                  ELSE [j \in 1..Len(heuristic.runs[i].text) |->
                            heuristic.recs[i]] \o cat(i + 1)
    IN  cat(1)

\* position p of the text lies in a sequence of field symbols of at least
\* the minimum length
InFieldSequence(text, p, min) ==
    \E i \in 1..p, j \in p..Len(text) :
        /\ j - i + 1 >= min
        /\ \A q \in i..j : text[q] \in FORM_FIELD_SYMBOLS

\* the form handler ran on a paragraph without underlined blank runs
FormHandled ==
    /\ HeurDone
    /\ heuristic.check = "form"
    /\ heurConfig.form_field_min_length >= 1
    /\ \A i \in 1..Len(paragraph.runs) : ~paragraph.runs[i].underline

\* C13: the rebuilt runs recommend form-field for exactly the characters of
\* the sequences of field symbols of at least the minimum length, also when
\* a sequence is spread over run boundaries, and keep the paragraph's prior
\* recommendation for all other characters.
C13_FieldCharsRecoloured ==
    FormHandled =>
        LET text == ParText(paragraph.runs)
        IN  /\ Len(CharRecs) = Len(text)
            /\ \A p \in 1..Len(text) :
                  CharRecs[p] =
                      IF InFieldSequence(text, p,
                                         heurConfig.form_field_min_length)
                      THEN COLOR_FORM_FIELD ELSE heuristic.style.main

\* C14: the runs rebuilt by the form handler concatenate, in order, to the
\* original text of the paragraph, for every minimum field length; the
\* sanity check never has to raise.
C14_RebuildIsLossless ==
    (heurPc = "done" /\ heuristic.check = "form") =>
        /\ ~heuristic.raised
        /\ ParText(heuristic.runs) = ParText(paragraph.runs)

\* a field spread over a run boundary was split off both runs
C14_Witness ==
    /\ heurPc = "done"
    /\ heuristic.check = "form"
    /\ Len(paragraph.runs) = 2
    /\ Len(heuristic.runs) = 4
    /\ heuristic.recs[2] = COLOR_FORM_FIELD
    /\ heuristic.recs[3] = COLOR_FORM_FIELD
    /\ ParText(heuristic.runs) = <<"a", "_", "_", "a">>

\* C15: "____: John Doe" with minimum length 4 is split into two runs, the
\* field run "____" recommended as form-field and the trailing run
\* ": John Doe" with the paragraph's prior recommendation.
C15_ExampleSplit ==
    (/\ heurPc = "done"
     /\ paragraph.runs = <<Run(ExampleText, FALSE, <<>>)>>
     /\ heurConfig.form_field_min_length = 4) =>
        /\ [i \in 1..Len(heuristic.runs) |-> heuristic.runs[i].text] =
              <<SubSeq(ExampleText, 1, 4),
                SubSeq(ExampleText, 5, Len(ExampleText))>>
        /\ heuristic.recs = <<COLOR_FORM_FIELD, heuristic.style.main>>

\* C16: the quote check is true exactly when the first and the last
\* character of the paragraph are both quote-type symbols, straight or
\* curly, the same character or not.
C16_QuoteCheck ==
    (HeurDone /\ FirstMatch # "form") =>
        LET text == ParText(paragraph.runs)
            quotes == QUOTE_SYMBOLS \cup CurlyQuotes
        IN  (heuristic.check = "quote") <=>
                /\ Len(text) > 0
                /\ text[1] \in quotes
                /\ text[Len(text)] \in quotes

(***************************************************************************)
(* Part F: properties                                                      *)
(***************************************************************************)
\* the heading levels the builtin headings with the signature were seen with
LevelsSeen(font) ==
    {builtin_heading_tracker[i][2] :
        i \in {j \in 1..Len(builtin_heading_tracker) :
                  builtin_heading_tracker[j][1] = font}}

TrackedFonts ==
    {builtin_heading_tracker[i][1] : i \in 1..Len(builtin_heading_tracker)}

BuiltFromBuiltins == stylePc = "built" /\ Len(builtin_heading_tracker) > 0

\* C17: with builtin headings observed, a signature seen with different
\* heading levels is mapped to the smallest level number seen for it, whatever
\* the order of the paragraphs.
C17_SmallestLevelNumber ==
    BuiltFromBuiltins =>
        \A font \in TrackedFonts :
            /\ font \in DOMAIN heuristic_map
            /\ heuristic_map[font] = SetMin(LevelsSeen(font))

BuiltByInference ==
    /\ stylePc = "built"
    /\ Len(builtin_heading_tracker) = 0
    /\ Len(font_size_count) > 0

\* the signature with the largest font size
LargestFont == lg_to_sm_fonts(font_size_count)[1]

InOneParagraph(font) ==
    \E i \in 1..Len(font_size_appearances) :
        /\ font_size_appearances[i].key = font
        /\ font_size_appearances[i].count = 1

CellColorized == tcIn.cell_loc # "none"

\* exactly one conditional style block was applied to the cell
BlockApplied ==
    CellColorized /\ ~tcProps.failed /\ Len(tcProps.applied) = 1

\* C19: every border and shading attribute the applied conditional style
\* block defines overrides the table-level direct properties and the
\* referenced style (levels 2 to 4) and is overridden only by the cell's own
\* direct properties (level 1).
C19_BlockOverridesTable ==
    BlockApplied =>
        /\ \A b \in CELL_BORDERS, a \in BORDER_SLOTS :
              tcProps.cond.tc_borders[b][a] # None =>
                  tcProps.tc_borders[b][a] =
                      IF tcIn.tc_borders[b][a] # None
                      THEN tcIn.tc_borders[b][a]
                      ELSE tcProps.cond.tc_borders[b][a]
        /\ \A s \in SHD_SLOTS :
              tcProps.cond.tc_shd[s] # None =>
                  tcProps.tc_shd[s] =
                      IF tcIn.tc_shd[s] # None THEN tcIn.tc_shd[s]
                      ELSE tcProps.cond.tc_shd[s]

\* conditional styling is enabled and a region flag of the cell is set for a
\* region the table look enables
RegionFlagSet ==
    /\ use_conditional_styling(tblParsed.look)
    /\ \E i \in 1..Len(CND_TESTS) :
          /\ cnf_style_of(tcIn)[CND_TESTS[i][1]] \in {"1", "true"}
          /\ tblParsed.look[CND_TESTS[i][2]] \in CND_TESTS[i][3]

\* C20: for every such cell, also one with several flags set, exactly one
\* conditional style block is selected and applied; the exactly-one check
\* never fails.
C20_ExactlyOneBlock ==
    (CellColorized /\ RegionFlagSet) =>
        /\ ~tcProps.failed
        /\ Len(tcProps.applied) = 1

(***************************************************************************)
(* Part H: properties                                                      *)
(***************************************************************************)
TablesDone == structPc = "done"

\* the cells of the t-th table and of the t-th table header of the page
TableCells(t) ==
    CellsOfTable(entitiesOfPage["ENTITY_TABLE_ID"][t],
                 entitiesOfPage["ENTITY_TABLE_CELL_ID"])
HeaderCells(t) ==
    CellsOfTable(entitiesOfPage["ENTITY_TABLE_HEADER_ID"][t],
                 entitiesOfPage["ENTITY_TABLE_HEADER_CELL_ID"])

\* C21: the header cells of every detected table header are grouped into
\* header rows like the cells of a table are grouped into rows, the
\* header-row entities are in the page's entity map, and no column entity
\* comes from header cells.
C21_HeaderRowsInMap ==
    TablesDone =>
        \A iteration \in Iterations :
            LET expected == get_row_and_column_entities(
                                entitiesOfPage["ENTITY_TABLE_HEADER_ID"],
                                entitiesOfPage["ENTITY_TABLE_HEADER_CELL_ID"],
                                TRUE, iteration)
                in_map == entitiesOfPage["ENTITY_TABLE_HEADER_ROW_ID"]
            IN  /\ \A i \in 1..Len(expected[1]) :
                      \E j \in 1..Len(in_map) : in_map[j] = expected[1][i]
                /\ expected[2] = <<>>

\* C22: in every table the raw row groups partition the table's cells,
\* every cell is in exactly one group and no two groups hold the same
\* cells, and the table contributes one row entity per group of cells.
C22_OneRowPerCluster ==
    TablesDone =>
        \A t \in 1..Len(entitiesOfPage["ENTITY_TABLE_ID"]) :
            \A iteration \in Iterations :
                LET cells == TableCells(t)
                    groups == group_rows_raw(cells, iteration)
                    InGroup(k, c) ==
                        \E i \in 1..Len(groups[k]) : groups[k][i] = c
                IN  /\ \A i \in 1..Len(cells) :
                          Cardinality({k \in 1..Len(groups) :
                                          InGroup(k, cells[i])}) = 1
                    /\ \A k, l \in 1..Len(groups) :
                          k # l => groups[k] # groups[l]
                    /\ Len(entitiesOfPage["ENTITY_TABLE_ROW_ID"])
                          = Cardinality({groups[k] : k \in 1..Len(groups)})

(***************************************************************************)
(* Part I: properties                                                      *)
(***************************************************************************)
\* documents handled by all annotators together
TotalHandled ==
    LET RECURSIVE Sum(_)
        Sum(i) == IF i = 0 THEN 0 ELSE handled[i] + Sum(i - 1)
    IN  Sum(Len(handled))

ResultsInQueue ==
    Cardinality({i \in 1..Len(results_queue) :
                    results_queue[i] # StopResults})
MonitorSignalled ==
    \/ monitorPc = "done"
    \/ \E i \in 1..Len(results_queue) : results_queue[i] = StopResults

\* C25: the monitor's done signal is sent only after every annotator has
\* terminated, every result put by an annotator is in the queue or
\* consumed by the monitor, and when the monitor has terminated it has
\* consumed every result and the results queue is empty.
C25_MonitorDrainsResults ==
    /\ MonitorSignalled =>
          \A w \in DOMAIN annotatorPc : annotatorPc[w] = "done"
    /\ num_docs + ResultsInQueue = TotalHandled
    /\ monitorPc = "done" =>
          num_docs = TotalHandled /\ results_queue = <<>>

\* two annotators have put results and the monitor has terminated after
\* consuming them
C25_Witness ==
    /\ monitorPc = "done"
    /\ Len(handled) = 2
    /\ handled[1] > 0 /\ handled[2] > 0
    /\ num_docs = handled[1] + handled[2]

\* C27: at the end of the run the logging process receives its stop
\* sentinel and terminates, and the main process's join on it returns.
C27_LoggerStops == <>(loggerPc = "done" /\ runMain = "exit")

\* C28: with max_docs greater than 0 the annotators together never handle
\* more than max_docs documents.
C28_MaxDocsRespected ==
    argsMaxDocs > 0 => TotalHandled <= argsMaxDocs

(***************************************************************************)
(* Part J: properties                                                      *)
(***************************************************************************)
\* C26: in both pipelines every started worker eventually takes a stop
\* sentinel and terminates, and all joins of the main process return.
C26_WorkersStop ==
    <>(/\ pipeMain = "exit"
       /\ \A w \in DOMAIN pipeWorkerPc : pipeWorkerPc[w] = "done")

=============================================================================
